---- MODULE Spec2Model ----
(***************************************************************************)
(* State-machine model of the Education Ecosystem Django application       *)
(* (src/myapp): the relational tables of models.py, the request handlers   *)
(* of views.py, the forms of forms.py and the admin actions of admin.py.   *)
(*                                                                         *)
(* Every table is a function from primary key to row.  A handler is one    *)
(* action that takes the authenticated user, the HTTP method and the form  *)
(* inputs as parameters, rewrites the tables the way the handler's code    *)
(* does, and leaves the HTTP response it returns in resp.                  *)
(***************************************************************************)
EXTENDS Integers, Sequences, FiniteSets, TLC

VARIABLES
    users,          \* auth.User rows: username -> [is_superuser, email]
    profiles,       \* Profile rows, keyed by their OneToOne user
    courses,        \* Course rows: id -> [title, teacher, students, course_code]
    lessons,        \* Lesson rows: id -> [course, title]
    assignments,    \* Assignment rows: id -> [course, title, created_by]
    submissions,    \* Submission rows
    attendance,     \* Attendance rows
    announcements,  \* Announcement rows
    feedbacks,      \* Feedback rows
    reports,        \* ComplianceReport rows
    now,            \* timezone.now(), a logical clock
    resp,           \* the response of the last completed request
    procs           \* in-flight attendance_mark requests (interleaving model)

db == <<users, profiles, courses, lessons, assignments, submissions,
        attendance, announcements, feedbacks, reports>>

vars == <<users, profiles, courses, lessons, assignments, submissions,
          attendance, announcements, feedbacks, reports, now, resp, procs>>

----------------------------------------------------------------------------
(* Bounds of the model *)

\* the logical clock runs over 1..MaxTime
MaxTime == 2
\* attendance dates are 1..MaxDate
MaxDate == 2
\* at most MaxInFlight submission_create requests are served at a time
MaxInFlight == 2
\* the redirects a browser follows before it gives up
MaxRedirects == 5

----------------------------------------------------------------------------
(* Values *)

\* SQL NULL / Python None in a nullable column
NULL == "NULL"
\* a nullable integer or timestamp column holds None (<<>>) or one value (<<v>>)
None == <<>>
Some(v) == <<v>>

ROLE_CHOICES == {"admin", "teacher", "student", "parent"}
SUBMISSION_STATUS_CHOICES == {"pending", "graded"}
ATTENDANCE_STATUS_CHOICES == {"present", "absent", "late"}
FEEDBACK_STATUS_CHOICES == {"pending", "addressed"}

\* the usernames of the model (auth.User.username is unique, so it serves as
\* the key of the table); "root" and "s3" are not taken in the initial data
UserIds == {"admin", "t1", "t2", "s1", "s2", "par", "nop", "root", "s3"}
\* an e-mail address is a sequence of characters
Email(name) == <<name, "@", "school">>
CourseIds == {1, 2}
LessonIds == {1, 2}
AssignmentIds == {1, 2}
SubmissionIds == {1, 2, 3, 4}
AttendanceIds == {1, 2, 3, 4}
AnnouncementIds == {1, 2}
FeedbackIds == {1, 2}
ReportIds == {1}

Methods == {"GET", "POST"}

\* restriction of a table to a set of keys
Restrict(f, S) == [k \in S |-> f[k]]
\* a table with one more row
Insert(f, k, row) == [x \in DOMAIN f \cup {k} |-> IF x = k THEN row ELSE f[x]]
\* the primary key the database gives a new row (an unused key of the pool)
NewId(f, pool) == CHOOSE k \in pool \ DOMAIN f : \A j \in pool \ DOMAIN f : k <= j
HasRoom(f, pool) == pool \ DOMAIN f # {}

----------------------------------------------------------------------------
(* Responses *)

\* resp records the request just served (handler, user, URL argument) and the
\* response returned for it; seq flips with every request
Response(h, u, arg, kind, to, msg) ==
    [handler |-> h, user |-> u, arg |-> arg, kind |-> kind, to |-> to,
     msg |-> msg, updated |-> 0, created |-> 0, context |-> <<>>,
     seq |-> 1 - resp.seq]

NoResponse ==
    [handler |-> "", user |-> NULL, arg |-> NULL, kind |-> "", to |-> "",
     msg |-> "", updated |-> 0, created |-> 0, context |-> <<>>, seq |-> 0]

redirect(h, u, arg, to, msg) == Response(h, u, arg, "redirect", to, msg)
render(h, u, arg, template) == Response(h, u, arg, "render", template, "")
\* render(request, template, context): the template variables a claim is about
render_with(h, u, arg, template, context) ==
    [render(h, u, arg, template) EXCEPT !.context = context]
\* an exception that no handler code catches: Django answers 500
ServerError(h, u, arg, exc) == Response(h, u, arg, "error500", "", exc)
\* get_object_or_404 on a missing primary key
Http404(h, u, arg) == Response(h, u, arg, "notfound", "", "")
JsonResponse(h, u, arg, status, body) == Response(h, u, arg, "json", status, body)

\* request.user.profile: the related Profile, or RelatedObjectDoesNotExist
HasProfile(u) == u \in DOMAIN profiles
Role(u) == profiles[u].role

----------------------------------------------------------------------------
(* Deletion: the ON DELETE rules of models.py *)

\* the rows of table f whose column col is in the set S
RowsWhere(f, col, S) == {k \in DOMAIN f : f[k][col] \in S}
Without(f, ks) == Restrict(f, DOMAIN f \ ks)

\* a cascade that leaves the attendance of the deleted courses behind
CourseCascade_keeping_attendance(cs, t) ==
    LET gone_assignments == RowsWhere(t.assignments, "course", cs)
    IN [t EXCEPT
          !.courses = Without(@, cs),
          !.lessons = Without(@, RowsWhere(@, "course", cs)),
          !.assignments = Without(@, gone_assignments),
          !.submissions = Without(@, RowsWhere(@, "assignment", gone_assignments))]

\* the tables after Course rows cs are deleted: lessons, assignments (with
\* their submissions) and attendance of the course go with it (CASCADE)
CourseCascade(cs, t) ==
    LET gone_assignments == RowsWhere(t.assignments, "course", cs)
    IN [t EXCEPT
          !.courses = Without(@, cs),
          !.lessons = Without(@, RowsWhere(@, "course", cs)),
          !.assignments = Without(@, gone_assignments),
          !.submissions = Without(@, RowsWhere(@, "assignment", gone_assignments)),
          !.attendance = Without(@, RowsWhere(@, "course", cs))]

\* the tables after User rows us are deleted: CASCADE for the profile, the
\* courses taught, assignments created, submissions handed in, reports,
\* feedback, announcements and attendance (student or marker); SET_NULL for
\* Submission.graded_by, Feedback.responded_by and Profile.linked_student;
\* the enrolment rows of the many-to-many table go as well
UserCascade(us, t) ==
    LET t1 == CourseCascade(RowsWhere(t.courses, "teacher", us), t)
        gone_assignments == RowsWhere(t1.assignments, "created_by", us)
    IN [t1 EXCEPT
          !.users = Without(@, us),
          !.profiles = [k \in DOMAIN @ \ us |->
                          IF @[k].linked_student \in us
                          THEN [@[k] EXCEPT !.linked_student = NULL] ELSE @[k]],
          !.courses = [k \in DOMAIN @ |-> [@[k] EXCEPT !.students = @ \ us]],
          !.assignments = Without(@, gone_assignments),
          !.submissions =
              LET kept == DOMAIN @ \ (RowsWhere(@, "assignment", gone_assignments)
                                       \cup RowsWhere(@, "student", us))
              IN [k \in kept |->
                    IF @[k].graded_by \in us
                    THEN [@[k] EXCEPT !.graded_by = NULL] ELSE @[k]],
          !.attendance = Without(@, RowsWhere(@, "student", us)
                                     \cup RowsWhere(@, "marked_by", us)),
          !.announcements = Without(@, RowsWhere(@, "created_by", us)),
          !.feedbacks =
              [k \in DOMAIN @ \ RowsWhere(@, "submitted_by", us) |->
                  IF @[k].responded_by \in us
                  THEN [@[k] EXCEPT !.responded_by = NULL] ELSE @[k]],
          !.reports = Without(@, RowsWhere(@, "reported_by", us))]

\* all tables as one record, and the assignment of such a record to the tables
Tables ==
    [users |-> users, profiles |-> profiles, courses |-> courses,
     lessons |-> lessons, assignments |-> assignments, submissions |-> submissions,
     attendance |-> attendance, announcements |-> announcements,
     feedbacks |-> feedbacks, reports |-> reports]

Commit(t) ==
    /\ users' = t.users
    /\ profiles' = t.profiles
    /\ courses' = t.courses
    /\ lessons' = t.lessons
    /\ assignments' = t.assignments
    /\ submissions' = t.submissions
    /\ attendance' = t.attendance
    /\ announcements' = t.announcements
    /\ feedbacks' = t.feedbacks
    /\ reports' = t.reports

----------------------------------------------------------------------------
(* Dashboards *)

\* Profile.objects.create(user=..., role=...) with the other columns defaulted
NewProfile(role) == [role |-> role, linked_student |-> NULL]

\* a recovery that makes every missing profile a student's
DefaultRole_always_student(u) == "student"

\* 'admin' if request.user.is_superuser else 'student'
DefaultRole(u) == IF users[u].is_superuser THEN "admin" ELSE "student"

\* the landing page: the profile is read, or created when there is none, and
\* the user is sent on to the dashboard of the profile's role
dashboard_view(u) ==
    LET h == "dashboard"
        profile == IF HasProfile(u) THEN profiles[u] ELSE NewProfile(DefaultRole(u))
    IN
    /\ u \in DOMAIN users
    /\ profiles' = IF HasProfile(u) THEN profiles ELSE Insert(profiles, u, profile)
    /\ IF profile.role \in ROLE_CHOICES
       THEN resp' = redirect(h, u, NULL,
                             CASE profile.role = "admin" -> "dashboard_admin"
                               [] profile.role = "teacher" -> "dashboard_teacher"
                               [] profile.role = "student" -> "dashboard_student"
                               [] OTHER -> "dashboard_parent",
                             IF HasProfile(u) THEN ""
                             ELSE "Profile created. Please update your settings.")
       ELSE resp' = redirect(h, u, NULL, "login", "Invalid user role.")
    /\ UNCHANGED <<users, courses, lessons, assignments, submissions, attendance,
                   announcements, feedbacks, reports, now, procs>>

dashboard_admin(u) ==
    LET h == "dashboard_admin"
        \* Profile.objects.get_or_create(user=request.user, defaults={...})
        profile == IF HasProfile(u) THEN profiles[u] ELSE NewProfile(DefaultRole(u))
    IN
    /\ u \in DOMAIN users
    /\ profiles' = IF HasProfile(u) THEN profiles ELSE Insert(profiles, u, profile)
    /\ IF profile.role # "admin"
       THEN resp' = redirect(h, u, NULL, "dashboard", "Access denied. Admin only.")
       ELSE resp' = redirect(h, u, NULL, "/admin/",
                     "Welcome Admin! Redirecting to the administration panel.")
    /\ UNCHANGED <<users, courses, lessons, assignments, submissions, attendance,
                   announcements, feedbacks, reports, now, procs>>

\* a view that only reads: the role check, then the page
ReadOnlyView(h, u, arg, denied, deny_msg, template) ==
    /\ u \in DOMAIN users
    /\ IF ~HasProfile(u) THEN resp' = ServerError(h, u, arg, "RelatedObjectDoesNotExist")
       ELSE IF denied THEN resp' = redirect(h, u, arg, "dashboard", deny_msg)
       ELSE resp' = render(h, u, arg, template)
    /\ UNCHANGED <<db, now, procs>>

\* Attendance.objects.filter(course__in=courses, status=...).count() that
\* takes a late student for a present one
attendance_count_late_as_present(cs, statuses) ==
    Cardinality({k \in DOMAIN attendance :
                    /\ attendance[k].course \in cs
                    /\ attendance[k].status \in statuses \cup {"late"}})

\* Attendance.objects.filter(course__in=courses, status=...).count()
attendance_count(cs, statuses) ==
    Cardinality({k \in DOMAIN attendance :
                    /\ attendance[k].course \in cs
                    /\ attendance[k].status \in statuses})

\* round(num / den * 100, 1), as a number of tenths of a percent: Python
\* rounds to the nearest tenth and a tie to the even one
round_percentage(num, den) ==
    LET q == (1000 * num) \div den
        r == (1000 * num) % den
    IN IF 2 * r > den THEN q + 1
       ELSE IF 2 * r = den THEN q + (q % 2)
       ELSE q

dashboard_teacher(u) ==
    LET h == "dashboard_teacher"
        \* Course.objects.filter(teacher=request.user)
        cs == {c \in DOMAIN courses : courses[c].teacher = u}
        total_attendance_records == attendance_count(cs, ATTENDANCE_STATUS_CHOICES)
        present_count == attendance_count(cs, {"present"})
    IN
    /\ u \in DOMAIN users
    /\ IF ~HasProfile(u) THEN resp' = ServerError(h, u, NULL, "RelatedObjectDoesNotExist")
       ELSE IF Role(u) # "teacher"
       THEN resp' = redirect(h, u, NULL, "dashboard", "Access denied. Teachers only.")
       ELSE resp' = render_with(h, u, NULL, "dashboard_teacher.html",
                      [attendance_percentage |->
                          IF total_attendance_records > 0
                          THEN round_percentage(present_count, total_attendance_records)
                          ELSE 0,
                       present_count |-> present_count,
                       absent_count |-> attendance_count(cs, {"absent"}),
                       late_count |-> attendance_count(cs, {"late"}),
                       total_attendance_records |-> total_attendance_records])
    /\ UNCHANGED <<db, now, procs>>

\* Announcement.objects.filter(is_active=True)[:5]; the model never holds more
\* than five announcements, so the slice keeps them all
active_announcements == {a \in DOMAIN announcements : announcements[a].is_active}

dashboard_student(u) ==
    LET h == "dashboard_student" IN
    /\ u \in DOMAIN users
    /\ IF ~HasProfile(u) THEN resp' = ServerError(h, u, NULL, "RelatedObjectDoesNotExist")
       ELSE IF Role(u) # "student"
       THEN resp' = redirect(h, u, NULL, "dashboard", "Access denied. Students only.")
       ELSE resp' = render_with(h, u, NULL, "dashboard_student.html",
                                [announcements |-> active_announcements])
    /\ UNCHANGED <<db, now, procs>>

\* a parent dashboard whose role test turns away the parents
dashboard_parent_denying_parents(u) ==
    ReadOnlyView("dashboard_parent", u, NULL, Role(u) = "parent",
                 "Access denied. Parents only.", "dashboard_parent.html")

dashboard_parent(u) ==
    ReadOnlyView("dashboard_parent", u, NULL, Role(u) # "parent",
                 "Access denied. Parents only.", "dashboard_parent.html")

(* A browser on the dashboards: a user opens one of the five dashboard      *)
(* URLs, the view answers, and the browser follows each redirect to the     *)
(* next URL, counting them.                                                 *)

\* the user opens a URL: a new visit (the one before has come to its end)
br_open(u, url) ==
    /\ u \in DOMAIN users
    /\ \A p \in DOMAIN procs :
          \/ procs[p].url \in {"/admin/", "login"}
          \/ procs[p].seq # resp.seq /\ resp.kind # "redirect"
    /\ procs' = [p \in {1} |-> [user |-> u, start |-> url, url |-> url,
                                redirects |-> 0, seq |-> resp.seq]]
    /\ UNCHANGED <<db, now, resp>>

\* the request for the URL of the visit, routed by urlpatterns; /admin/ and
\* login are pages outside these views
br_request(p) ==
    /\ procs[p].seq = resp.seq
    /\ CASE procs[p].url = "dashboard" -> dashboard_view(procs[p].user)
         [] procs[p].url = "dashboard_admin" -> dashboard_admin(procs[p].user)
         [] procs[p].url = "dashboard_teacher" -> dashboard_teacher(procs[p].user)
         [] procs[p].url = "dashboard_student" -> dashboard_student(procs[p].user)
         [] procs[p].url = "dashboard_parent" -> dashboard_parent(procs[p].user)
         [] OTHER -> FALSE

\* the answer is a redirect: the browser goes to its target
br_follow(p) ==
    /\ procs[p].seq # resp.seq
    /\ resp.kind = "redirect"
    /\ procs[p].redirects < MaxRedirects
    /\ procs' = [procs EXCEPT ![p].url = resp.to,
                              ![p].redirects = @ + 1,
                              ![p].seq = resp.seq]
    /\ UNCHANGED <<db, now, resp>>

----------------------------------------------------------------------------
(* User management *)

user_list(u) ==
    ReadOnlyView("user_list", u, NULL, Role(u) # "admin", "Access denied.",
                 "user_list.html")

\* AdminUserCreateForm: a username that is free and a role of ROLE_CHOICES
AdminUserCreateForm_is_valid(form) ==
    /\ form.username \in UserIds \ DOMAIN users
    /\ form.role \in ROLE_CHOICES

\* AdminUserCreateForm.save(): the User and its Profile with the chosen role
AdminUserCreateForm_save(form, t) ==
    [t EXCEPT !.users = Insert(@, form.username,
                               [is_superuser |-> FALSE, email |-> form.email]),
              !.profiles = Insert(@, form.username, NewProfile(form.role))]

user_create(u, method, form) ==
    LET h == "user_create" IN
    /\ u \in DOMAIN users
    /\ IF ~HasProfile(u) THEN
          /\ resp' = ServerError(h, u, NULL, "RelatedObjectDoesNotExist")
          /\ UNCHANGED db
       ELSE IF Role(u) # "admin" THEN
          /\ resp' = redirect(h, u, NULL, "dashboard", "Access denied.")
          /\ UNCHANGED db
       ELSE IF method = "POST" /\ AdminUserCreateForm_is_valid(form) THEN
          /\ Commit(AdminUserCreateForm_save(form, Tables))
          /\ resp' = redirect(h, u, NULL, "user_list", "User created successfully!")
       ELSE
          /\ resp' = render(h, u, NULL, "user_form.html")
          /\ UNCHANGED db
    /\ UNCHANGED <<now, procs>>

\* ProfileForm: role is disabled (the posted value is ignored); linked_student
\* is optional and limited to users whose profile role is student
ProfileForm_is_valid(form) ==
    \/ form.linked_student = NULL
    \/ /\ form.linked_student \in DOMAIN profiles
       /\ profiles[form.linked_student].role = "student"

\* a ProfileForm whose role field takes the posted value
ProfileForm_save_posted_role(profile, form) ==
    [profile EXCEPT !.role = form.role, !.linked_student = form.linked_student]

\* a disabled field takes its value from the instance, not from the POST data
ProfileForm_save(profile, form) ==
    [profile EXCEPT !.role = profile.role, !.linked_student = form.linked_student]

user_edit(u, method, user_id, form) ==
    LET h == "user_edit" IN
    /\ u \in DOMAIN users
    /\ IF ~HasProfile(u) THEN
          /\ resp' = ServerError(h, u, user_id, "RelatedObjectDoesNotExist")
          /\ UNCHANGED profiles
       ELSE IF Role(u) # "admin" THEN
          /\ resp' = redirect(h, u, user_id, "dashboard", "Access denied.")
          /\ UNCHANGED profiles
       ELSE IF user_id \notin DOMAIN users THEN
          /\ resp' = Http404(h, u, user_id)
          /\ UNCHANGED profiles
       ELSE IF ~HasProfile(user_id) THEN
          \* instance=user.profile
          /\ resp' = ServerError(h, u, user_id, "RelatedObjectDoesNotExist")
          /\ UNCHANGED profiles
       ELSE IF method = "POST" /\ ProfileForm_is_valid(form) THEN
          /\ profiles' = [profiles EXCEPT ![user_id] = ProfileForm_save(@, form)]
          /\ resp' = redirect(h, u, user_id, "user_list", "User updated successfully!")
       ELSE
          /\ resp' = render(h, u, user_id, "user_edit.html")
          /\ UNCHANGED profiles
    /\ UNCHANGED <<users, courses, lessons, assignments, submissions, attendance,
                   announcements, feedbacks, reports, now, procs>>

user_delete(u, method, user_id) ==
    LET h == "user_delete" IN
    /\ u \in DOMAIN users
    /\ IF ~HasProfile(u) THEN
          /\ resp' = ServerError(h, u, user_id, "RelatedObjectDoesNotExist")
          /\ UNCHANGED db
       ELSE IF Role(u) # "admin" THEN
          /\ resp' = redirect(h, u, user_id, "dashboard", "Access denied.")
          /\ UNCHANGED db
       ELSE IF user_id \notin DOMAIN users THEN
          /\ resp' = Http404(h, u, user_id)
          /\ UNCHANGED db
       ELSE IF method = "POST" THEN
          /\ Commit(UserCascade({user_id}, Tables))
          /\ resp' = redirect(h, u, user_id, "user_list", "User deleted successfully!")
       ELSE
          /\ resp' = render(h, u, user_id, "user_confirm_delete.html")
          /\ UNCHANGED db
    /\ UNCHANGED <<now, procs>>

\* the user's own settings page; both branches read request.user.profile
profile_settings(u, method, form) ==
    LET h == "profile_settings" IN
    /\ u \in DOMAIN users
    /\ IF ~HasProfile(u) THEN
          /\ resp' = ServerError(h, u, NULL, "RelatedObjectDoesNotExist")
          /\ UNCHANGED profiles
       ELSE IF method = "POST" /\ ProfileForm_is_valid(form) THEN
          /\ profiles' = [profiles EXCEPT ![u] = ProfileForm_save(@, form)]
          /\ resp' = redirect(h, u, NULL, "dashboard", "Profile updated successfully!")
       ELSE
          /\ resp' = render(h, u, NULL, "profile_settings.html")
          /\ UNCHANGED profiles
    /\ UNCHANGED <<users, courses, lessons, assignments, submissions, attendance,
                   announcements, feedbacks, reports, now, procs>>

----------------------------------------------------------------------------
(* Registration *)

\* forms.EmailField: one "@" with something before it and something after it
EmailField_is_valid(email) ==
    \E i \in 2..(Len(email) - 1) :
        /\ email[i] = "@"
        /\ \A j \in DOMAIN email \ {i} : email[j] # "@"

\* a registration form whose role field takes any value
UserRegisterForm_errors_any_role(form) ==
    {f \in {"username", "email"} :
        \/ f = "username" /\ form.username \notin UserIds \ DOMAIN users
        \/ f = "email" /\ ~EmailField_is_valid(form.email)}

\* the fields of UserRegisterForm that fail validation: the username has to
\* be free (UserCreationForm), the e-mail well formed, the role one of the
\* three choices of the form
UserRegisterForm_errors(form) ==
    {f \in {"username", "email", "role"} :
        \/ f = "username" /\ form.username \notin UserIds \ DOMAIN users
        \/ f = "email" /\ ~EmailField_is_valid(form.email)
        \/ f = "role" /\ form.role \notin {"student", "teacher", "parent"}}

UserRegisterForm_is_valid(form) == UserRegisterForm_errors(form) = {}

\* UserRegisterForm.save(): user.save(), then get_or_create of the Profile
\* (created with the default role), then the chosen role is saved
UserRegisterForm_save(form, t) ==
    LET name == form.username
        user_saved == [t EXCEPT !.users = Insert(@, name,
                          [is_superuser |-> FALSE, email |-> form.email])]
        profile_got == IF name \in DOMAIN t.profiles THEN user_saved
                       ELSE [user_saved EXCEPT
                                !.profiles = Insert(@, name, NewProfile("student"))]
    IN [profile_got EXCEPT !.profiles[name].role = form.role]

\* the view is open to anonymous visitors: resp.user is NULL
register_view(method, form) ==
    LET h == "register" IN
    /\ IF method = "POST" /\ UserRegisterForm_is_valid(form) THEN
          IF form.username \in DOMAIN users THEN
             \* the unique index of auth_user.username refuses the INSERT
             /\ resp' = ServerError(h, NULL, NULL, "IntegrityError")
             /\ UNCHANGED db
          ELSE
             /\ Commit(UserRegisterForm_save(form, Tables))
             /\ resp' = redirect(h, NULL, NULL, "login",
                                 "Account created! You can now log in.")
       ELSE
          /\ resp' = render_with(h, NULL, NULL, "registration/register.html",
                        [errors |-> IF method = "POST"
                                    THEN UserRegisterForm_errors(form) ELSE {}])
          /\ UNCHANGED db
    /\ UNCHANGED <<now, procs>>

(* Registration, statement by statement: nothing wraps the three statements *)
(* of UserRegisterForm.save() in a transaction, so each of them commits on  *)
(* its own and other requests are served in between.                        *)

\* form.is_valid() and user.save()
rg_user_save(p) ==
    LET form == procs[p].form IN
    /\ procs[p].pc = "user_save"
    /\ IF UserRegisterForm_is_valid(form)
       THEN /\ users' = Insert(users, form.username,
                               [is_superuser |-> FALSE, email |-> form.email])
            /\ procs' = [procs EXCEPT ![p].pc = "get_or_create"]
            /\ UNCHANGED resp
       ELSE /\ resp' = render_with("register", NULL, NULL, "registration/register.html",
                                   [errors |-> UserRegisterForm_errors(form)])
            /\ procs' = [procs EXCEPT ![p].pc = "done"]
            /\ UNCHANGED users
    /\ UNCHANGED <<profiles, courses, lessons, assignments, submissions, attendance,
                   announcements, feedbacks, reports, now>>

\* Profile.objects.get_or_create(user=user)
rg_get_or_create(p) ==
    LET name == procs[p].form.username IN
    /\ procs[p].pc = "get_or_create"
    /\ profiles' = IF HasProfile(name) THEN profiles
                   ELSE Insert(profiles, name, NewProfile("student"))
    /\ procs' = [procs EXCEPT ![p].pc = "profile_save"]
    /\ UNCHANGED <<users, courses, lessons, assignments, submissions, attendance,
                   announcements, feedbacks, reports, now, resp>>

\* profile.role = cleaned_data['role']; profile.save(); the view then redirects
rg_profile_save(p) ==
    LET form == procs[p].form IN
    /\ procs[p].pc = "profile_save"
    /\ profiles' = [profiles EXCEPT ![form.username].role = form.role]
    /\ resp' = redirect("register", NULL, NULL, "login",
                        "Account created! You can now log in.")
    /\ procs' = [procs EXCEPT ![p].pc = "done"]
    /\ UNCHANGED <<users, courses, lessons, assignments, submissions, attendance,
                   announcements, feedbacks, reports, now>>

(* The recovery of a missing Profile, statement by statement: the landing   *)
(* page, the admin dashboard and the create_profiles command first look for *)
(* the profile and then insert one, and other statements run in between.    *)

\* an INSERT that overwrites the row of the same user
Profile_create_replacing(profs, u, role) == Insert(profs, u, NewProfile(role))

\* the INSERT of Profile.objects.create / get_or_create: Profile.user is a
\* OneToOneField, so its unique index refuses a second row for the user
Profile_create(profs, u, role) ==
    IF u \in DOMAIN profs THEN profs ELSE Insert(profs, u, NewProfile(role))

\* the lookup: request.user.profile in dashboard_view, the get of
\* get_or_create in dashboard_admin, user.profile in one round of the loop of
\* create_profiles; with a profile the view goes on as usual (and the
\* command to the next user), without one the insert is still to come
heal_get(h, u) ==
    /\ u \in DOMAIN users
    /\ HasRoom(procs, 1..(MaxInFlight + 1))
    /\ IF HasProfile(u)
       THEN CASE h = "dashboard" -> dashboard_view(u)
              [] h = "dashboard_admin" -> dashboard_admin(u)
              [] OTHER -> FALSE
       ELSE /\ procs' = Insert(procs, NewId(procs, 1..(MaxInFlight + 1)),
                               [handler |-> h, user |-> u, pc |-> "create"])
            /\ UNCHANGED <<db, now, resp>>

\* the insert and what follows it: dashboard_view does not catch the
\* IntegrityError of a profile that has appeared meanwhile, get_or_create in
\* dashboard_admin catches it and reads the profile again, the command ends
\* with it (a command returns no response)
heal_create(p) ==
    LET pr == procs[p]
        u == pr.user
        created == ~HasProfile(u)
        role == IF created THEN DefaultRole(u) ELSE Role(u)
    IN
    /\ "handler" \in DOMAIN pr
    /\ pr.pc = "create"
    /\ profiles' = Profile_create(profiles, u, DefaultRole(u))
    /\ resp' = CASE pr.handler = "dashboard" ->
                      IF created
                      THEN redirect("dashboard", u, NULL,
                                    IF role = "admin" THEN "dashboard_admin"
                                    ELSE "dashboard_student",
                                    "Profile created. Please update your settings.")
                      ELSE ServerError("dashboard", u, NULL, "IntegrityError")
                 [] pr.handler = "dashboard_admin" ->
                      IF role # "admin"
                      THEN redirect("dashboard_admin", u, NULL, "dashboard",
                                    "Access denied. Admin only.")
                      ELSE redirect("dashboard_admin", u, NULL, "/admin/",
                             "Welcome Admin! Redirecting to the administration panel.")
                 [] OTHER -> resp
    /\ procs' = Without(procs, {p})
    /\ UNCHANGED <<users, courses, lessons, assignments, submissions, attendance,
                   announcements, feedbacks, reports, now>>

----------------------------------------------------------------------------
(* Courses *)

\* CourseForm: title required, teacher among the users whose profile role is
\* teacher, course_code unique among the other courses
CourseForm_is_valid(form, instance) ==
    /\ form.title # ""
    /\ form.teacher \in DOMAIN users
    /\ HasProfile(form.teacher)
    /\ Role(form.teacher) = "teacher"
    /\ form.course_code # ""
    /\ \A c \in DOMAIN courses \ {instance} :
          courses[c].course_code # form.course_code

course_create(u, method, form) ==
    LET h == "course_create" IN
    /\ u \in DOMAIN users
    /\ IF ~HasProfile(u) THEN
          /\ resp' = ServerError(h, u, NULL, "RelatedObjectDoesNotExist")
          /\ UNCHANGED courses
       ELSE IF Role(u) \notin {"admin", "teacher"} THEN
          /\ resp' = redirect(h, u, NULL, "dashboard", "Access denied.")
          /\ UNCHANGED courses
       ELSE IF method = "POST" /\ CourseForm_is_valid(form, 0) THEN
          /\ HasRoom(courses, CourseIds)
          /\ courses' = Insert(courses, NewId(courses, CourseIds),
                               [title |-> form.title, teacher |-> form.teacher,
                                students |-> {}, course_code |-> form.course_code])
          /\ resp' = redirect(h, u, NULL, "course_list", "Course created successfully!")
       ELSE
          /\ resp' = render(h, u, NULL, "course_form.html")
          /\ UNCHANGED courses
    /\ UNCHANGED <<users, profiles, lessons, assignments, submissions, attendance,
                   announcements, feedbacks, reports, now, procs>>

\* CourseEnrollmentForm: every chosen user must have the profile role student
CourseEnrollmentForm_is_valid(students) ==
    \A x \in students : x \in DOMAIN profiles /\ profiles[x].role = "student"

course_enroll(u, method, course_id, students) ==
    LET h == "course_enroll" IN
    /\ u \in DOMAIN users
    /\ IF ~HasProfile(u) THEN
          /\ resp' = ServerError(h, u, course_id, "RelatedObjectDoesNotExist")
          /\ UNCHANGED courses
       ELSE IF Role(u) \notin {"admin", "teacher"} THEN
          /\ resp' = redirect(h, u, course_id, "dashboard", "Access denied.")
          /\ UNCHANGED courses
       ELSE IF course_id \notin DOMAIN courses THEN
          /\ resp' = Http404(h, u, course_id)
          /\ UNCHANGED courses
       ELSE IF method = "POST" /\ CourseEnrollmentForm_is_valid(students) THEN
          /\ courses' = [courses EXCEPT ![course_id].students = students]
          /\ resp' = redirect(h, u, course_id, "course_detail",
                              "Students enrolled successfully!")
       ELSE
          /\ resp' = redirect(h, u, course_id, "course_detail",
                "Please manage student enrollment from the course detail page.")
          /\ UNCHANGED courses
    /\ UNCHANGED <<users, profiles, lessons, assignments, submissions, attendance,
                   announcements, feedbacks, reports, now, procs>>

\* an ownership test that lets every teacher through
not_own_course_unchecked(u, course_id) == FALSE

\* request.user.profile.role == 'teacher' and course.teacher != request.user
not_own_course(u, course_id) ==
    Role(u) = "teacher" /\ courses[course_id].teacher # u

course_edit(u, method, course_id, form) ==
    LET h == "course_edit" IN
    /\ u \in DOMAIN users
    /\ IF ~HasProfile(u) THEN
          /\ resp' = ServerError(h, u, course_id, "RelatedObjectDoesNotExist")
          /\ UNCHANGED courses
       ELSE IF Role(u) \notin {"admin", "teacher"} THEN
          /\ resp' = redirect(h, u, course_id, "dashboard", "Access denied.")
          /\ UNCHANGED courses
       ELSE IF course_id \notin DOMAIN courses THEN
          /\ resp' = Http404(h, u, course_id)
          /\ UNCHANGED courses
       ELSE IF not_own_course(u, course_id) THEN
          /\ resp' = redirect(h, u, course_id, "course_list",
                              "You can only edit your own courses.")
          /\ UNCHANGED courses
       ELSE IF method = "POST" /\ CourseForm_is_valid(form, course_id) THEN
          /\ courses' = [courses EXCEPT ![course_id].title = form.title,
                                        ![course_id].teacher = form.teacher,
                                        ![course_id].course_code = form.course_code]
          /\ resp' = redirect(h, u, course_id, "course_detail",
                              "Course updated successfully!")
       ELSE
          /\ resp' = render(h, u, course_id, "course_form.html")
          /\ UNCHANGED courses
    /\ UNCHANGED <<users, profiles, lessons, assignments, submissions, attendance,
                   announcements, feedbacks, reports, now, procs>>

course_delete(u, method, course_id) ==
    LET h == "course_delete" IN
    /\ u \in DOMAIN users
    /\ IF ~HasProfile(u) THEN
          /\ resp' = ServerError(h, u, course_id, "RelatedObjectDoesNotExist")
          /\ UNCHANGED db
       ELSE IF Role(u) \notin {"admin", "teacher"} THEN
          /\ resp' = redirect(h, u, course_id, "dashboard", "Access denied.")
          /\ UNCHANGED db
       ELSE IF course_id \notin DOMAIN courses THEN
          /\ resp' = Http404(h, u, course_id)
          /\ UNCHANGED db
       ELSE IF not_own_course(u, course_id) THEN
          /\ resp' = redirect(h, u, course_id, "course_list",
                              "You can only delete your own courses.")
          /\ UNCHANGED db
       ELSE IF method = "POST" THEN
          /\ Commit(CourseCascade({course_id}, Tables))
          /\ resp' = redirect(h, u, course_id, "course_list",
                              "Course deleted successfully!")
       ELSE
          /\ resp' = render(h, u, course_id, "course_confirm_delete.html")
          /\ UNCHANGED db
    /\ UNCHANGED <<now, procs>>

----------------------------------------------------------------------------
(* Lessons *)

\* LessonForm: course is a posted field and must be an existing course,
\* title is required
LessonForm_is_valid(form) ==
    /\ form.course \in DOMAIN courses
    /\ form.title # ""

lesson_create(u, method, course_id, form) ==
    LET h == "lesson_create" IN
    /\ u \in DOMAIN users
    /\ IF ~HasProfile(u) THEN
          /\ resp' = ServerError(h, u, course_id, "RelatedObjectDoesNotExist")
          /\ UNCHANGED lessons
       ELSE IF Role(u) \notin {"admin", "teacher"} THEN
          /\ resp' = redirect(h, u, course_id, "dashboard", "Access denied.")
          /\ UNCHANGED lessons
       ELSE IF course_id \notin DOMAIN courses THEN
          /\ resp' = Http404(h, u, course_id)
          /\ UNCHANGED lessons
       ELSE IF method = "POST" /\ LessonForm_is_valid(form) THEN
          /\ HasRoom(lessons, LessonIds)
          /\ lessons' = Insert(lessons, NewId(lessons, LessonIds),
                               [course |-> form.course, title |-> form.title])
          /\ resp' = redirect(h, u, course_id, "course_detail",
                              "Lesson created successfully!")
       ELSE
          /\ resp' = render(h, u, course_id, "lesson_form.html")
          /\ UNCHANGED lessons
    /\ UNCHANGED <<users, profiles, courses, assignments, submissions, attendance,
                   announcements, feedbacks, reports, now, procs>>

\* request.user.profile.role == 'teacher' and lesson.course.teacher != request.user
not_own_lesson(u, lesson_id) ==
    Role(u) = "teacher" /\ courses[lessons[lesson_id].course].teacher # u

lesson_edit(u, method, lesson_id, form) ==
    LET h == "lesson_edit" IN
    /\ u \in DOMAIN users
    /\ IF ~HasProfile(u) THEN
          /\ resp' = ServerError(h, u, lesson_id, "RelatedObjectDoesNotExist")
          /\ UNCHANGED lessons
       ELSE IF Role(u) \notin {"admin", "teacher"} THEN
          /\ resp' = redirect(h, u, lesson_id, "dashboard", "Access denied.")
          /\ UNCHANGED lessons
       ELSE IF lesson_id \notin DOMAIN lessons THEN
          /\ resp' = Http404(h, u, lesson_id)
          /\ UNCHANGED lessons
       ELSE IF not_own_lesson(u, lesson_id) THEN
          /\ resp' = redirect(h, u, lesson_id, "course_detail",
                              "You can only edit lessons from your own courses.")
          /\ UNCHANGED lessons
       ELSE IF method = "POST" /\ LessonForm_is_valid(form) THEN
          /\ lessons' = [lessons EXCEPT ![lesson_id].course = form.course,
                                        ![lesson_id].title = form.title]
          /\ resp' = redirect(h, u, lesson_id, "course_detail",
                              "Lesson updated successfully!")
       ELSE
          /\ resp' = render(h, u, lesson_id, "lesson_form.html")
          /\ UNCHANGED lessons
    /\ UNCHANGED <<users, profiles, courses, assignments, submissions, attendance,
                   announcements, feedbacks, reports, now, procs>>

lesson_delete(u, method, lesson_id) ==
    LET h == "lesson_delete" IN
    /\ u \in DOMAIN users
    /\ IF ~HasProfile(u) THEN
          /\ resp' = ServerError(h, u, lesson_id, "RelatedObjectDoesNotExist")
          /\ UNCHANGED lessons
       ELSE IF Role(u) \notin {"admin", "teacher"} THEN
          /\ resp' = redirect(h, u, lesson_id, "dashboard", "Access denied.")
          /\ UNCHANGED lessons
       ELSE IF lesson_id \notin DOMAIN lessons THEN
          /\ resp' = Http404(h, u, lesson_id)
          /\ UNCHANGED lessons
       ELSE IF not_own_lesson(u, lesson_id) THEN
          /\ resp' = redirect(h, u, lesson_id, "course_detail",
                              "You can only delete lessons from your own courses.")
          /\ UNCHANGED lessons
       ELSE IF method = "POST" THEN
          /\ lessons' = Without(lessons, {lesson_id})
          /\ resp' = redirect(h, u, lesson_id, "course_detail",
                              "Lesson deleted successfully!")
       ELSE
          /\ resp' = render(h, u, lesson_id, "lesson_confirm_delete.html")
          /\ UNCHANGED lessons
    /\ UNCHANGED <<users, profiles, courses, assignments, submissions, attendance,
                   announcements, feedbacks, reports, now, procs>>

----------------------------------------------------------------------------
(* Assignments *)

\* AssignmentForm: course is a posted field and must be an existing course,
\* title is required
AssignmentForm_is_valid(form) ==
    /\ form.course \in DOMAIN courses
    /\ form.title # ""

assignment_create(u, method, course_id, form) ==
    LET h == "assignment_create" IN
    /\ u \in DOMAIN users
    /\ IF ~HasProfile(u) THEN
          /\ resp' = ServerError(h, u, course_id, "RelatedObjectDoesNotExist")
          /\ UNCHANGED assignments
       ELSE IF Role(u) \notin {"admin", "teacher"} THEN
          /\ resp' = redirect(h, u, course_id, "dashboard", "Access denied.")
          /\ UNCHANGED assignments
       ELSE IF course_id \notin DOMAIN courses THEN
          /\ resp' = Http404(h, u, course_id)
          /\ UNCHANGED assignments
       ELSE IF method = "POST" /\ AssignmentForm_is_valid(form) THEN
          /\ HasRoom(assignments, AssignmentIds)
          /\ assignments' = Insert(assignments, NewId(assignments, AssignmentIds),
                                   [course |-> form.course, title |-> form.title,
                                    created_by |-> u])
          /\ resp' = redirect(h, u, course_id, "course_detail",
                              "Assignment created successfully!")
       ELSE
          /\ resp' = render(h, u, course_id, "assignment_form.html")
          /\ UNCHANGED assignments
    /\ UNCHANGED <<users, profiles, courses, lessons, submissions, attendance,
                   announcements, feedbacks, reports, now, procs>>

----------------------------------------------------------------------------
(* Assignment submission and grading *)

\* a check that looks the student's submissions up under the wrong assignment
existing_submissions_skipped(aid, u) ==
    {s \in DOMAIN submissions :
        submissions[s].assignment # aid /\ submissions[s].student = u}

\* Submission.objects.filter(assignment=assignment, student=request.user)
existing_submissions(aid, u) ==
    {s \in DOMAIN submissions :
        submissions[s].assignment = aid /\ submissions[s].student = u}

\* SubmissionForm: the one field, file, is required
SubmissionForm_is_valid(file) == file # ""

\* a new Submission with the model's defaults
NewSubmission(aid, u, file) ==
    [assignment |-> aid, student |-> u, file |-> file,
     marks_obtained |-> None, feedback |-> NULL, status |-> "pending",
     graded_by |-> NULL, graded_at |-> None]

\* unique_together = ['assignment', 'student'], as the database enforces it
Submission_unique_violation(aid, u) ==
    \E s \in DOMAIN submissions :
        submissions[s].assignment = aid /\ submissions[s].student = u

submission_create(u, method, aid, file) ==
    LET h == "submission_create" IN
    /\ u \in DOMAIN users
    /\ IF ~HasProfile(u) THEN
          /\ resp' = ServerError(h, u, aid, "RelatedObjectDoesNotExist")
          /\ UNCHANGED submissions
       ELSE IF Role(u) # "student" THEN
          /\ resp' = redirect(h, u, aid, "dashboard", "Access denied. Students only.")
          /\ UNCHANGED submissions
       ELSE IF aid \notin DOMAIN assignments THEN
          /\ resp' = Http404(h, u, aid)
          /\ UNCHANGED submissions
       ELSE IF existing_submissions(aid, u) # {} THEN
          /\ resp' = redirect(h, u, aid, "assignment_detail",
                              "You have already submitted this assignment.")
          /\ UNCHANGED submissions
       ELSE IF method = "POST" /\ SubmissionForm_is_valid(file) THEN
          IF Submission_unique_violation(aid, u) THEN
             /\ resp' = ServerError(h, u, aid, "IntegrityError")
             /\ UNCHANGED submissions
          ELSE
             /\ HasRoom(submissions, SubmissionIds)
             /\ submissions' = Insert(submissions, NewId(submissions, SubmissionIds),
                                       NewSubmission(aid, u, file))
             /\ resp' = redirect(h, u, aid, "assignment_detail",
                                 "Assignment submitted successfully!")
       ELSE
          /\ resp' = render(h, u, aid, "submission_form.html")
          /\ UNCHANGED submissions
    /\ UNCHANGED <<users, profiles, courses, lessons, assignments, attendance,
                   announcements, feedbacks, reports, now, procs>>

(* submission_create, statement by statement: the checks and the reading of *)
(* the existing submission are one step, submission.save() is another, and  *)
(* other requests run in between.                                           *)

\* a POST up to form.is_valid(): a request that gets through all the checks
\* is in flight from here on, any other is answered at once
sc_check(u, aid, file) ==
    /\ u \in DOMAIN users
    /\ Cardinality(DOMAIN procs) < MaxInFlight
    /\ IF /\ HasProfile(u) /\ Role(u) = "student"
          /\ aid \in DOMAIN assignments
          /\ existing_submissions(aid, u) = {}
          /\ SubmissionForm_is_valid(file)
       THEN /\ procs' = Insert(procs, Cardinality(DOMAIN procs) + 1,
                               [user |-> u, assignment |-> aid, file |-> file,
                                pc |-> "save"])
            /\ UNCHANGED <<db, now, resp>>
       ELSE submission_create(u, "POST", aid, file)

\* submission.save() and the redirect; nothing catches the IntegrityError of
\* the unique index
sc_save(p) ==
    LET pr == procs[p]
        h == "submission_create"
    IN
    /\ pr.pc = "save"
    /\ IF Submission_unique_violation(pr.assignment, pr.user) THEN
          /\ resp' = ServerError(h, pr.user, pr.assignment, "IntegrityError")
          /\ UNCHANGED submissions
       ELSE
          /\ HasRoom(submissions, SubmissionIds)
          /\ submissions' = Insert(submissions, NewId(submissions, SubmissionIds),
                                    NewSubmission(pr.assignment, pr.user, pr.file))
          /\ resp' = redirect(h, pr.user, pr.assignment, "assignment_detail",
                              "Assignment submitted successfully!")
    /\ procs' = [procs EXCEPT ![p].pc = "done"]
    /\ UNCHANGED <<users, profiles, courses, lessons, assignments, attendance,
                   announcements, feedbacks, reports, now>>

\* forms.IntegerField.to_python on the posted text: an empty value is None,
\* a decimal numeral is its integer, anything else is a validation error
IntegerField_numerals == [t \in {"0", "40", "85"} |->
                            IF t = "0" THEN 0 ELSE IF t = "40" THEN 40 ELSE 85]
IntegerField_is_valid(text) == text = "" \/ text \in DOMAIN IntegerField_numerals
IntegerField_to_python(text) ==
    IF text = "" THEN None ELSE Some(IntegerField_numerals[text])

\* GradingForm: marks_obtained (IntegerField null=True, blank=True: optional),
\* feedback (optional), status (required, one of STATUS_CHOICES)
GradingForm_is_valid(marks, status) ==
    /\ IntegerField_is_valid(marks)
    /\ status \in SUBMISSION_STATUS_CHOICES

\* form.save(commit=False), graded_by, graded_at, then save()
GradedSubmission(row, u, marks, fb, status) ==
    [row EXCEPT !.marks_obtained = IntegerField_to_python(marks),
                !.feedback = fb, !.status = status,
                !.graded_by = u, !.graded_at = Some(now)]

submission_grade(u, method, sid, marks, fb, status) ==
    LET h == "submission_grade" IN
    /\ u \in DOMAIN users
    /\ IF ~HasProfile(u) THEN
          /\ resp' = ServerError(h, u, sid, "RelatedObjectDoesNotExist")
          /\ UNCHANGED submissions
       ELSE IF Role(u) \notin {"admin", "teacher"} THEN
          /\ resp' = redirect(h, u, sid, "dashboard", "Access denied.")
          /\ UNCHANGED submissions
       ELSE IF sid \notin DOMAIN submissions THEN
          /\ resp' = Http404(h, u, sid)
          /\ UNCHANGED submissions
       ELSE IF method = "POST" /\ GradingForm_is_valid(marks, status) THEN
          /\ submissions' = [submissions EXCEPT
                                ![sid] = GradedSubmission(@, u, marks, fb, status)]
          /\ resp' = redirect(h, u, sid, "assignment_detail",
                              "Submission graded successfully!")
       ELSE
          /\ resp' = render(h, u, sid, "submission_grade.html")
          /\ UNCHANGED submissions
    /\ UNCHANGED <<users, profiles, courses, lessons, assignments, attendance,
                   announcements, feedbacks, reports, now, procs>>

\* a bulk action that also stamps the grading time
mark_graded_update_stamping(row) ==
    [row EXCEPT !.status = "graded", !.graded_at = Some(now)]

\* queryset.update(status='graded') on the rows selected in the admin change list
mark_graded_update(row) == [row EXCEPT !.status = "graded"]

\* SubmissionAdmin.mark_graded, run by a user of the admin site
mark_graded(u, queryset) ==
    /\ u \in DOMAIN users
    /\ users[u].is_superuser
    /\ queryset \subseteq DOMAIN submissions
    /\ submissions' = [s \in DOMAIN submissions |->
                          IF s \in queryset THEN mark_graded_update(submissions[s])
                          ELSE submissions[s]]
    /\ resp' = [Response("mark_graded", u, queryset, "admin", "changelist",
                         "Marked submission(s) as graded.")
                 EXCEPT !.updated = Cardinality(queryset)]
    /\ UNCHANGED <<users, profiles, courses, lessons, assignments, attendance,
                   announcements, feedbacks, reports, now, procs>>

\* time passes between requests
Tick ==
    /\ now < MaxTime
    /\ now' = now + 1
    /\ UNCHANGED <<db, resp, procs>>

----------------------------------------------------------------------------
(* Attendance marking *)

\* User rows in primary-key order, the order course.students.all() yields them
UserOrder == <<"admin", "t1", "t2", "s1", "s2", "par", "nop", "root", "s3">>

\* posted dates: 1..MaxDate are calendar days, 0 is a request without a date
Dates == 1..MaxDate

\* the Attendance rows with this (student, course, date)
attendance_rows(att, student, cid, date) ==
    {k \in DOMAIN att :
        /\ att[k].student = student /\ att[k].course = cid /\ att[k].date = date}

\* an update that forgets who marked
attendance_update_keeping_marker(row, status, remarks, u) ==
    [row EXCEPT !.status = status, !.remarks = remarks]

\* attendance.status / remarks / marked_by = ...; attendance.save()
attendance_update(row, status, remarks, u) ==
    [row EXCEPT !.status = status, !.remarks = remarks, !.marked_by = u]

\* the row get_or_create inserts from the lookup and the defaults
attendance_defaults(student, cid, date, status, remarks, u) ==
    [student |-> student, course |-> cid, date |-> date,
     status |-> status, remarks |-> remarks, marked_by |-> u]

\* request.POST.get(f'status_{student.id}'): None when the key is not posted
POST_get(post, key) == IF key \in DOMAIN post THEN post[key] ELSE ""

\* the loop over course.students.all(): todo holds the students still to
\* visit, acc carries the table and the two counters
RECURSIVE attendance_mark_loop(_, _, _, _, _, _, _)
attendance_mark_loop(todo, acc, u, cid, date, status, remarks) ==
    IF todo = <<>> THEN acc
    ELSE LET student == Head(todo)
             st == POST_get(status, student)
             found == attendance_rows(acc.att, student, cid, date)
         IN IF st = ""
            THEN attendance_mark_loop(Tail(todo), acc, u, cid, date, status, remarks)
            ELSE IF found # {}
            THEN attendance_mark_loop(Tail(todo),
                    [acc EXCEPT
                       !.att = [@ EXCEPT ![CHOOSE k \in found : TRUE] =
                                  attendance_update(@, st, POST_get(remarks, student), u)],
                       !.updated = @ + 1],
                    u, cid, date, status, remarks)
            ELSE attendance_mark_loop(Tail(todo),
                    [acc EXCEPT
                       !.att = Insert(@, NewId(@, AttendanceIds),
                                      attendance_defaults(student, cid, date, st,
                                                          POST_get(remarks, student), u)),
                       !.created = @ + 1],
                    u, cid, date, status, remarks)

\* course.students.all(), in primary-key order
course_students(cid) ==
    SelectSeq(UserOrder, LAMBDA x : x \in courses[cid].students)

\* the students of the course whose status is posted
marked_students(cid, status) ==
    {x \in courses[cid].students : POST_get(status, x) # ""}

attendance_mark(u, method, cid, date, status, remarks) ==
    LET h == "attendance_mark" IN
    /\ u \in DOMAIN users
    /\ IF ~HasProfile(u) THEN
          /\ resp' = ServerError(h, u, cid, "RelatedObjectDoesNotExist")
          /\ UNCHANGED attendance
       ELSE IF Role(u) \notin {"admin", "teacher"} THEN
          /\ resp' = redirect(h, u, cid, "dashboard", "Access denied.")
          /\ UNCHANGED attendance
       ELSE IF method # "POST" THEN
          /\ resp' = render(h, u, cid, "attendance_mark.html")
          /\ UNCHANGED attendance
       ELSE IF cid \notin DOMAIN courses THEN
          /\ resp' = Http404(h, u, cid)
          /\ UNCHANGED attendance
       ELSE IF date \notin Dates /\ marked_students(cid, status) # {} THEN
          \* the lookup or the insert of the first marked student raises
          /\ resp' = ServerError(h, u, cid, "ValidationError")
          /\ UNCHANGED attendance
       ELSE
          /\ Cardinality(DOMAIN attendance) + Cardinality(marked_students(cid, status))
                <= Cardinality(AttendanceIds)
          /\ \E out \in {attendance_mark_loop(course_students(cid),
                              [att |-> attendance, updated |-> 0, created |-> 0],
                              u, cid, date, status, remarks)} :
             /\ attendance' = out.att
             /\ resp' = [redirect(h, u, cid, "attendance_list",
                                  IF out.updated > 0
                                  THEN "Attendance updated! records were updated, new records created."
                                  ELSE "Attendance marked successfully! records created.")
                         EXCEPT !.updated = out.updated, !.created = out.created,
                                !.arg = [course |-> cid, date |-> date,
                                         status |-> status, remarks |-> remarks]]
    /\ UNCHANGED <<users, profiles, courses, lessons, assignments, submissions,
                   announcements, feedbacks, reports, now, procs>>

----------------------------------------------------------------------------
(* Attendance marking, statement by statement: each in-flight request is a  *)
(* record of procs, and every database statement of the loop is one step    *)

\* a unique index that is not there
Attendance_unique_violation_absent(att, student, cid, date) == FALSE

\* unique_together = ['student', 'course', 'date'], as the database enforces it
Attendance_unique_violation(att, student, cid, date) ==
    attendance_rows(att, student, cid, date) # {}

\* a request that has passed the role check and loaded the course: what is
\* left of the loop (the students with a posted status), its counters, and
\* the number of IntegrityErrors get_or_create has caught
MarkingProcess(u, cid, date, status, remarks) ==
    [user |-> u, course |-> cid, date |-> date, status |-> status,
     remarks |-> remarks,
     todo |-> SelectSeq(course_students(cid), LAMBDA x : POST_get(status, x) # ""),
     pc |-> "get", obj |-> 0, updated |-> 0, created |-> 0,
     integrity_errors |-> 0]

\* the end of one loop iteration
NextStudent(pr) ==
    [pr EXCEPT !.todo = Tail(@), !.obj = 0,
               !.pc = IF Len(pr.todo) > 1 THEN "get" ELSE "respond"]

\* get_or_create, first statement: self.get(**kwargs)
am_get(p) ==
    LET pr == procs[p] IN
    /\ pr.pc = "get"
    /\ IF pr.todo = <<>> THEN procs' = [procs EXCEPT ![p].pc = "respond"]
       ELSE LET found == attendance_rows(attendance, Head(pr.todo), pr.course, pr.date)
            IN IF found # {}
               THEN procs' = [procs EXCEPT ![p].obj = CHOOSE k \in found : TRUE,
                                           ![p].pc = "save"]
               ELSE procs' = [procs EXCEPT ![p].pc = "create"]
    /\ UNCHANGED <<db, now, resp>>

\* get_or_create, second statement: self.create(**params) in a savepoint;
\* an IntegrityError sends it back to get()
am_create(p) ==
    LET pr == procs[p]
        student == Head(pr.todo)
    IN
    /\ pr.pc = "create"
    /\ IF Attendance_unique_violation(attendance, student, pr.course, pr.date)
       THEN /\ procs' = [procs EXCEPT ![p].pc = "reget",
                                       ![p].integrity_errors = @ + 1]
            /\ UNCHANGED attendance
       ELSE /\ HasRoom(attendance, AttendanceIds)
            /\ attendance' = Insert(attendance, NewId(attendance, AttendanceIds),
                                    attendance_defaults(student, pr.course, pr.date,
                                        pr.status[student],
                                        POST_get(pr.remarks, student), pr.user))
            /\ procs' = [procs EXCEPT ![p] = NextStudent([pr EXCEPT !.created = @ + 1])]
    /\ UNCHANGED <<users, profiles, courses, lessons, assignments, submissions,
                   announcements, feedbacks, reports, now, resp>>

\* get_or_create, after the IntegrityError: self.get(**kwargs) once more, and
\* the IntegrityError is raised again when there is still no row
am_reget(p) ==
    LET pr == procs[p]
        found == attendance_rows(attendance, Head(pr.todo), pr.course, pr.date)
    IN
    /\ pr.pc = "reget"
    /\ IF found # {}
       THEN procs' = [procs EXCEPT ![p].obj = CHOOSE k \in found : TRUE,
                                   ![p].pc = "save"]
       ELSE procs' = [procs EXCEPT ![p].pc = "failed"]
    /\ UNCHANGED <<db, now, resp>>

\* if not created: set the three fields and attendance.save()
am_save(p) ==
    LET pr == procs[p]
        student == Head(pr.todo)
    IN
    /\ pr.pc = "save"
    /\ pr.obj \in DOMAIN attendance
    /\ attendance' = [attendance EXCEPT ![pr.obj] =
                         attendance_update(@, pr.status[student],
                                           POST_get(pr.remarks, student), pr.user)]
    /\ procs' = [procs EXCEPT ![p] = NextStudent([pr EXCEPT !.updated = @ + 1])]
    /\ UNCHANGED <<users, profiles, courses, lessons, assignments, submissions,
                   announcements, feedbacks, reports, now, resp>>

\* the message and the redirect to attendance_list
am_respond(p) ==
    LET pr == procs[p] IN
    /\ pr.pc = "respond"
    /\ resp' = [redirect("attendance_mark", pr.user, p, "attendance_list",
                         IF pr.updated > 0
                         THEN "Attendance updated! records were updated, new records created."
                         ELSE "Attendance marked successfully! records created.")
                EXCEPT !.updated = pr.updated, !.created = pr.created]
    /\ procs' = [procs EXCEPT ![p].pc = "done"]
    /\ UNCHANGED <<db, now>>

----------------------------------------------------------------------------
(* Compliance reports, feedback, attendance list *)

\* a report list that teachers may open as well
compliance_list_for_staff(u) ==
    ReadOnlyView("compliance_list", u, NULL, Role(u) \notin {"admin", "teacher"},
                 "Access denied.", "compliance_list.html")

compliance_list(u) ==
    ReadOnlyView("compliance_list", u, NULL, Role(u) # "admin", "Access denied.",
                 "compliance_list.html")

\* ComplianceReportForm: institute_name is required and accessibility_status
\* is one of the status choices of ComplianceReport
ComplianceReportForm_is_valid(form) ==
    /\ form.institute_name # ""
    /\ form.accessibility_status \in {"compliant", "partial", "non_compliant"}

compliance_create(u, method, form) ==
    LET h == "compliance_create" IN
    /\ u \in DOMAIN users
    /\ IF ~HasProfile(u) THEN
          /\ resp' = ServerError(h, u, NULL, "RelatedObjectDoesNotExist")
          /\ UNCHANGED reports
       ELSE IF Role(u) # "admin" THEN
          /\ resp' = redirect(h, u, NULL, "dashboard", "Access denied.")
          /\ UNCHANGED reports
       ELSE IF method = "POST" /\ ComplianceReportForm_is_valid(form) THEN
          /\ HasRoom(reports, ReportIds)
          /\ reports' = Insert(reports, NewId(reports, ReportIds),
                               [institute_name |-> form.institute_name,
                                accessibility_status |-> form.accessibility_status,
                                reported_by |-> u])
          /\ resp' = redirect(h, u, NULL, "compliance_list",
                              "Compliance report created successfully!")
       ELSE
          /\ resp' = render(h, u, NULL, "compliance_form.html")
          /\ UNCHANGED reports
    /\ UNCHANGED <<users, profiles, courses, lessons, assignments, submissions,
                   attendance, announcements, feedbacks, now, procs>>

\* FeedbackResponseForm: response may be blank, status is a required choice
FeedbackResponseForm_is_valid(form) == form.status \in FEEDBACK_STATUS_CHOICES

feedback_respond(u, method, feedback_id, form) ==
    LET h == "feedback_respond" IN
    /\ u \in DOMAIN users
    /\ IF ~HasProfile(u) THEN
          /\ resp' = ServerError(h, u, feedback_id, "RelatedObjectDoesNotExist")
          /\ UNCHANGED feedbacks
       ELSE IF Role(u) \notin {"admin", "teacher"} THEN
          /\ resp' = redirect(h, u, feedback_id, "dashboard", "Access denied.")
          /\ UNCHANGED feedbacks
       ELSE IF feedback_id \notin DOMAIN feedbacks THEN
          /\ resp' = Http404(h, u, feedback_id)
          /\ UNCHANGED feedbacks
       ELSE IF method = "POST" /\ FeedbackResponseForm_is_valid(form) THEN
          /\ feedbacks' = [feedbacks EXCEPT ![feedback_id].response = form.response,
                                            ![feedback_id].status = form.status,
                                            ![feedback_id].responded_by = u,
                                            ![feedback_id].responded_at = Some(now)]
          /\ resp' = redirect(h, u, feedback_id, "feedback_list",
                              "Response submitted successfully!")
       ELSE
          /\ resp' = render_with(h, u, feedback_id, "feedback_response.html",
                                 [feedback |-> feedback_id])
          /\ UNCHANGED feedbacks
    /\ UNCHANGED <<users, profiles, courses, lessons, assignments, submissions,
                   attendance, announcements, reports, now, procs>>

attendance_list(u) ==
    ReadOnlyView("attendance_list", u, NULL, Role(u) \notin {"admin", "teacher"},
                 "Access denied.", "attendance_list.html")

----------------------------------------------------------------------------
(* Announcements *)

\* Announcement.target_roles and the posted role tags are character strings:
\* a text is the sequence of its characters
Text ==
    [w \in {"all", "admin", "teacher", "student", "parent", "students", "Parent"} |->
        CASE w = "all" -> <<"a", "l", "l">>
          [] w = "admin" -> <<"a", "d", "m", "i", "n">>
          [] w = "teacher" -> <<"t", "e", "a", "c", "h", "e", "r">>
          [] w = "student" -> <<"s", "t", "u", "d", "e", "n", "t">>
          [] w = "parent" -> <<"p", "a", "r", "e", "n", "t">>
          [] w = "students" -> <<"s", "t", "u", "d", "e", "n", "t", "s">>
          [] w = "Parent" -> <<"P", "a", "r", "e", "n", "t">>]

\* ','.join(target_roles_list)
RECURSIVE comma_join(_)
comma_join(list) ==
    IF list = <<>> THEN <<>>
    ELSE IF Len(list) = 1 THEN Head(list)
    ELSE Head(list) \o <<",">> \o comma_join(Tail(list))

\* 'all' if target_all is posted or no role is ticked, else the joined roles
target_roles_of(post) ==
    IF post.target_all # "" THEN Text["all"]
    ELSE IF post.target_roles # <<>> THEN comma_join(post.target_roles)
    ELSE Text["all"]

\* str.lower() of one character
LowerOf ==
    LET upper == <<"A", "B", "C", "D", "E", "F", "G", "H", "I", "J", "K", "L", "M",
                   "N", "O", "P", "Q", "R", "S", "T", "U", "V", "W", "X", "Y", "Z">>
        lowers == <<"a", "b", "c", "d", "e", "f", "g", "h", "i", "j", "k", "l", "m",
                    "n", "o", "p", "q", "r", "s", "t", "u", "v", "w", "x", "y", "z">>
    IN [c \in {upper[i] : i \in DOMAIN upper} |->
           lowers[CHOOSE i \in DOMAIN upper : upper[i] = c]]
lower(c) == IF c \in DOMAIN LowerOf THEN LowerOf[c] ELSE c

\* a lookup that finds the needle at the start of hay only
icontains_at_start(hay, needle) ==
    /\ Len(needle) <= Len(hay)
    /\ \A j \in 1..Len(needle) : lower(hay[j]) = lower(needle[j])

\* the lookup target_roles__icontains=needle: needle occurs in hay, ignoring case
icontains(hay, needle) ==
    \E i \in 0..(Len(hay) - Len(needle)) :
        \A j \in 1..Len(needle) : lower(hay[i + j]) = lower(needle[j])

\* a filter that forgets is_active=True
announcement_filter_any_status(row, user_role) ==
    row.target_roles = Text["all"] \/ icontains(row.target_roles, Text[user_role])

\* filter(Q(target_roles='all') | Q(target_roles__icontains=user_role),
\*        is_active=True)
announcement_filter(row, user_role) ==
    /\ row.target_roles = Text["all"] \/ icontains(row.target_roles, Text[user_role])
    /\ row.is_active

announcement_list(u) ==
    LET h == "announcement_list" IN
    /\ u \in DOMAIN users
    /\ IF ~HasProfile(u) THEN resp' = ServerError(h, u, NULL, "RelatedObjectDoesNotExist")
       ELSE IF Role(u) = "admin"
       THEN resp' = render_with(h, u, NULL, "announcement_list.html",
                                [announcements |-> DOMAIN announcements])
       ELSE resp' = render_with(h, u, NULL, "announcement_list.html",
                        [announcements |->
                            {a \in DOMAIN announcements :
                                announcement_filter(announcements[a], Role(u))}])
    /\ UNCHANGED <<db, now, procs>>

announcement_create(u, method, post) ==
    LET h == "announcement_create" IN
    /\ u \in DOMAIN users
    /\ IF ~HasProfile(u) THEN
          /\ resp' = ServerError(h, u, NULL, "RelatedObjectDoesNotExist")
          /\ UNCHANGED announcements
       ELSE IF Role(u) \notin {"admin", "teacher"} THEN
          /\ resp' = redirect(h, u, NULL, "dashboard", "Access denied.")
          /\ UNCHANGED announcements
       ELSE IF method = "POST" THEN
          IF post.title = NULL THEN
             \* title=None violates the NOT NULL column
             /\ resp' = ServerError(h, u, NULL, "IntegrityError")
             /\ UNCHANGED announcements
          ELSE
             /\ HasRoom(announcements, AnnouncementIds)
             /\ announcements' =
                   Insert(announcements, NewId(announcements, AnnouncementIds),
                          [title |-> post.title,
                           target_roles |-> target_roles_of(post),
                           is_active |-> (post.is_active = "on"),
                           created_by |-> u])
             /\ resp' = redirect(h, u, NULL, "announcement_list",
                                 "Announcement created successfully!")
       ELSE
          /\ resp' = render(h, u, NULL, "announcement_form.html")
          /\ UNCHANGED announcements
    /\ UNCHANGED <<users, profiles, courses, lessons, assignments, submissions,
                   attendance, feedbacks, reports, now, procs>>

\* request.user.profile.role not in ['admin'] and
\* announcement.created_by != request.user
not_own_announcement(u, announcement_id) ==
    Role(u) # "admin" /\ announcements[announcement_id].created_by # u

announcement_edit(u, method, announcement_id, post) ==
    LET h == "announcement_edit" IN
    /\ u \in DOMAIN users
    /\ IF announcement_id \notin DOMAIN announcements THEN
          /\ resp' = Http404(h, u, announcement_id)
          /\ UNCHANGED announcements
       ELSE IF ~HasProfile(u) THEN
          /\ resp' = ServerError(h, u, announcement_id, "RelatedObjectDoesNotExist")
          /\ UNCHANGED announcements
       ELSE IF not_own_announcement(u, announcement_id) THEN
          /\ resp' = redirect(h, u, announcement_id, "announcement_list",
                              "Access denied.")
          /\ UNCHANGED announcements
       ELSE IF method = "POST" THEN
          IF post.title = NULL THEN
             /\ resp' = ServerError(h, u, announcement_id, "IntegrityError")
             /\ UNCHANGED announcements
          ELSE
             /\ announcements' =
                   [announcements EXCEPT
                       ![announcement_id].title = post.title,
                       ![announcement_id].target_roles = target_roles_of(post),
                       ![announcement_id].is_active = (post.is_active = "on")]
             /\ resp' = redirect(h, u, announcement_id, "announcement_list",
                                 "Announcement updated successfully!")
       ELSE
          /\ resp' = render(h, u, announcement_id, "announcement_form.html")
          /\ UNCHANGED announcements
    /\ UNCHANGED <<users, profiles, courses, lessons, assignments, submissions,
                   attendance, feedbacks, reports, now, procs>>

\* the handler that deletes before it checks the permission
announcement_delete_before_check(u, method, announcement_id) ==
    LET h == "announcement_delete" IN
    /\ u \in DOMAIN users
    /\ IF announcement_id \notin DOMAIN announcements THEN
          /\ resp' = Http404(h, u, announcement_id)
          /\ UNCHANGED announcements
       ELSE IF ~HasProfile(u) THEN
          /\ resp' = ServerError(h, u, announcement_id, "RelatedObjectDoesNotExist")
          /\ UNCHANGED announcements
       ELSE
          /\ announcements' = Without(announcements, {announcement_id})
          /\ resp' = IF not_own_announcement(u, announcement_id)
                     THEN redirect(h, u, announcement_id, "announcement_list",
                                   "Access denied.")
                     ELSE redirect(h, u, announcement_id, "announcement_list",
                                   "Announcement deleted successfully!")
    /\ UNCHANGED <<users, profiles, courses, lessons, assignments, submissions,
                   attendance, feedbacks, reports, now, procs>>

\* there is no test of request.method: a GET from the owner deletes as well
announcement_delete(u, method, announcement_id) ==
    LET h == "announcement_delete" IN
    /\ u \in DOMAIN users
    /\ IF announcement_id \notin DOMAIN announcements THEN
          /\ resp' = Http404(h, u, announcement_id)
          /\ UNCHANGED announcements
       ELSE IF ~HasProfile(u) THEN
          /\ resp' = ServerError(h, u, announcement_id, "RelatedObjectDoesNotExist")
          /\ UNCHANGED announcements
       ELSE IF not_own_announcement(u, announcement_id) THEN
          /\ resp' = redirect(h, u, announcement_id, "announcement_list",
                              "Access denied.")
          /\ UNCHANGED announcements
       ELSE
          /\ announcements' = Without(announcements, {announcement_id})
          /\ resp' = redirect(h, u, announcement_id, "announcement_list",
                              "Announcement deleted successfully!")
    /\ UNCHANGED <<users, profiles, courses, lessons, assignments, submissions,
                   attendance, feedbacks, reports, now, procs>>

----------------------------------------------------------------------------
(* API endpoints *)

\* the whole body is inside try/except Exception: the Http404 of a missing
\* course and the missing Profile both come back as the 500 JSON answer
course_students_api(u, course_id) ==
    LET h == "course_students_api" IN
    /\ u \in DOMAIN users
    /\ resp' = IF course_id \notin DOMAIN courses \/ ~HasProfile(u) THEN
                  JsonResponse(h, u, course_id, "500", "Failed to load students")
               ELSE IF Role(u) \notin {"admin", "teacher"} THEN
                  JsonResponse(h, u, course_id, "403",
                               "Access denied - insufficient permissions")
               ELSE IF not_own_course(u, course_id) THEN
                  JsonResponse(h, u, course_id, "403",
                               "Access denied - not your course")
               ELSE JsonResponse(h, u, course_id, "200", "students")
    /\ UNCHANGED <<db, now, procs>>

----------------------------------------------------------------------------
(* Initial data: an admin (superuser), two teachers, two students, a parent *)
(* and a legacy account without Profile; one course of t1 with both        *)
(* students enrolled, one lesson and one assignment.                       *)

InitUsers ==
    [u \in {"admin", "t1", "t2", "s1", "s2", "par", "nop"} |->
        [is_superuser |-> (u = "admin"), email |-> Email(u)]]
InitProfiles ==
    [u \in DOMAIN InitUsers \ {"nop"} |->
        [role |-> CASE u = "admin" -> "admin"
                    [] u \in {"t1", "t2"} -> "teacher"
                    [] u \in {"s1", "s2"} -> "student"
                    [] OTHER -> "parent",
         linked_student |-> IF u = "par" THEN "s1" ELSE NULL]]
InitCourses ==
    [c \in {1} |-> [title |-> "Algebra", teacher |-> "t1",
                    students |-> {"s1", "s2"}, course_code |-> "CS101"]]
InitLessons == [l \in {1} |-> [course |-> 1, title |-> "Intro"]]
InitAssignments == [a \in {1} |-> [course |-> 1, title |-> "HW1", created_by |-> "t1"]]
EmptyTable == [k \in {} |-> NULL]
\* the users who send requests
Actors == {"admin", "t1", "t2", "s1", "par", "nop"}

InitBase ==
    /\ users = InitUsers
    /\ profiles = InitProfiles
    /\ courses = InitCourses
    /\ lessons = InitLessons
    /\ assignments = InitAssignments
    /\ submissions = EmptyTable
    /\ attendance = EmptyTable
    /\ announcements = EmptyTable
    /\ feedbacks = EmptyTable
    /\ reports = EmptyTable
    /\ now = 1
    /\ resp = NoResponse
    /\ procs = EmptyTable

----------------------------------------------------------------------------
(* Specification of submitting: students hand in work for two assignments *)

InitSubmission ==
    /\ InitBase!1 /\ InitBase!2 /\ InitBase!3 /\ InitBase!4
    /\ assignments = [a \in {1, 2} |->
                         [course |-> 1, title |-> "HW", created_by |-> "t1"]]
    /\ submissions = EmptyTable
    /\ attendance = EmptyTable
    /\ announcements = EmptyTable
    /\ feedbacks = EmptyTable
    /\ reports = EmptyTable
    /\ now = 1
    /\ resp = NoResponse
    /\ procs = EmptyTable

\* the requests of the workflow: a GET carries no form data
SubmitRequests ==
    [u : {"s1", "s2", "t1", "nop"}, m : {"GET"}, aid : {1, 2}, file : {""}]
    \cup [u : {"s1", "s2", "t1"}, m : {"POST"}, aid : {1, 2, 3}, file : {"", "hw.pdf"}]

NextSubmission ==
    \E r \in SubmitRequests : submission_create(r.u, r.m, r.aid, r.file)

SpecSubmission == InitSubmission /\ [][NextSubmission]_vars

----------------------------------------------------------------------------
(* Specification of grading: both students have handed in assignment 1 *)

InitGrading ==
    /\ InitBase!1 /\ InitBase!2 /\ InitBase!3 /\ InitBase!4 /\ InitBase!5
    /\ submissions = [s \in {1, 2} |->
                         NewSubmission(1, IF s = 1 THEN "s1" ELSE "s2", "hw.pdf")]
    /\ attendance = EmptyTable
    /\ announcements = EmptyTable
    /\ feedbacks = EmptyTable
    /\ reports = EmptyTable
    /\ now = 1
    /\ resp = NoResponse
    /\ procs = EmptyTable

GradeRequests ==
    [u : {"admin", "t1", "s1"}, m : {"GET"}, sid : {1, 3},
     marks : {""}, fb : {""}, status : {""}]
    \cup [u : {"admin", "t1"}, m : {"POST"}, sid : {1, 2},
          marks : {"", "85"}, fb : {"good"}, status : {"pending", "graded"}]
    \cup [u : {"t1"}, m : {"POST"}, sid : {1, 3},
          marks : {"abc", "85"}, fb : {""}, status : {"", "graded"}]

NextGrading ==
    \/ \E r \in GradeRequests :
            submission_grade(r.u, r.m, r.sid, r.marks, r.fb, r.status)
    \/ \E u \in {"admin"}, q \in (SUBSET DOMAIN submissions) \ {{}} :
            mark_graded(u, q)
    \/ Tick

SpecGrading == InitGrading /\ [][NextGrading]_vars

----------------------------------------------------------------------------
(* Claims about submission and grading *)

SamePair(a, b) ==
    /\ submissions[a].assignment = submissions[b].assignment
    /\ submissions[a].student = submissions[b].student

C4_OnePerPair == \A a, b \in DOMAIN submissions : SamePair(a, b) => a = b

\* a submission_create by a student who has already submitted that assignment
\* answers with the warning and the redirect and leaves the table as it was
C4_ResubmitRejected ==
    (/\ resp'.handler = "submission_create"
     /\ HasProfile(resp'.user)
     /\ Role(resp'.user) = "student"
     /\ \E s \in DOMAIN submissions :
            /\ submissions[s].assignment = resp'.arg
            /\ submissions[s].student = resp'.user)
    => /\ resp'.kind = "redirect"
       /\ resp'.to = "assignment_detail"
       /\ resp'.msg = "You have already submitted this assignment."
       /\ submissions' = submissions

\* C4: there is at most one Submission per (assignment, student) in every
\* reachable state, and a second submission_create for the same pair is rejected
\* with the 'already submitted' warning, redirected to the assignment detail
\* page, and changes no submission.
C4_SubmissionUnique == []C4_OnePerPair /\ [][C4_ResubmitRejected]_vars

\* a second attempt has been rejected while the first submission is stored
C4_Witness ==
    /\ resp.handler = "submission_create"
    /\ resp.msg = "You have already submitted this assignment."
    /\ \E s \in DOMAIN submissions :
          submissions[s].assignment = resp.arg /\ submissions[s].student = resp.user

\* C7 (as claimed): a submission that is graded never becomes pending again,
\* whatever submission_grade requests and mark_graded actions follow.
C7_GradedIsTerminal ==
    [][\A s \in DOMAIN submissions :
          (submissions[s].status = "graded" /\ s \in DOMAIN submissions')
          => submissions'[s].status = "graded"]_vars

\* C8 (as claimed): in every reachable state a submission whose graded_at is set
\* has status graded.
C8_GradedAtOnlyWhenGraded ==
    \A s \in DOMAIN submissions :
        submissions[s].graded_at # None => submissions[s].status = "graded"

\* C9 (as claimed): a successful submission_grade POST leaves marks_obtained,
\* graded_by and graded_at all set (marks and feedback from the form, graded_by
\* the acting user, graded_at the current time) and keeps the submission's
\* assignment, student and file.
C9_GradeSetsAll ==
    [][(resp'.handler = "submission_grade"
        /\ resp'.msg = "Submission graded successfully!")
       => LET old == submissions[resp'.arg]
              new == submissions'[resp'.arg]
          IN /\ new.marks_obtained # None
             /\ new.graded_by = resp'.user
             /\ new.graded_at = Some(now)
             /\ new.assignment = old.assignment
             /\ new.student = old.student
             /\ new.file = old.file]_vars

\* C10: the bulk mark_graded action sets status = graded on exactly the selected
\* submissions, keeps their marks_obtained, feedback, graded_by and graded_at,
\* and changes no submission that was not selected.
C10_BulkOnlyFlipsStatus ==
    [][resp'.handler = "mark_graded"
       => /\ DOMAIN submissions' = DOMAIN submissions
          /\ \A s \in DOMAIN submissions :
               IF s \in resp'.arg
               THEN /\ submissions'[s].status = "graded"
                    /\ submissions'[s].marks_obtained = submissions[s].marks_obtained
                    /\ submissions'[s].feedback = submissions[s].feedback
                    /\ submissions'[s].graded_by = submissions[s].graded_by
                    /\ submissions'[s].graded_at = submissions[s].graded_at
                    /\ submissions'[s].assignment = submissions[s].assignment
                    /\ submissions'[s].student = submissions[s].student
                    /\ submissions'[s].file = submissions[s].file
               ELSE submissions'[s] = submissions[s]]_vars

\* the bulk action has graded a selected submission that nobody marked, and
\* has left a submission outside the selection pending
C10_Witness ==
    /\ resp.handler = "mark_graded"
    /\ \E s \in resp.arg :
          /\ submissions[s].status = "graded"
          /\ submissions[s].marks_obtained = None
          /\ submissions[s].graded_at = None
    /\ \E s \in DOMAIN submissions \ resp.arg : submissions[s].status = "pending"

----------------------------------------------------------------------------
(* Specification of attendance marking, one request at a time *)

\* what the form posts for s1 and s2: status and remarks per student
AttendancePosts ==
    {[status |-> [x \in {"s1", "s2"} |-> IF x = "s1" THEN a.st ELSE b],
      remarks |-> [x \in {"s1"} |-> a.rm]] :
        a \in {[st |-> "", rm |-> ""], [st |-> "present", rm |-> ""],
               [st |-> "absent", rm |-> "sick"]},
        b \in {"", "late"}}

NoPost == [status |-> EmptyTable, remarks |-> EmptyTable]
OnePost == [status |-> [x \in {"s1"} |-> "present"], remarks |-> EmptyTable]

AttendanceRequests ==
    [u : {"t1"}, m : {"POST"}, cid : {1}, date : Dates, post : AttendancePosts]
    \cup [u : {"admin"}, m : {"POST"}, cid : {1}, date : Dates, post : {OnePost}]
    \cup {[u |-> "t1", m |-> "GET", cid |-> 1, date |-> 0, post |-> NoPost],
          [u |-> "s1", m |-> "POST", cid |-> 1, date |-> 1, post |-> OnePost],
          [u |-> "t1", m |-> "POST", cid |-> 2, date |-> 1, post |-> OnePost],
          [u |-> "t1", m |-> "POST", cid |-> 1, date |-> 0, post |-> OnePost],
          \* a status that is none of the choices of the model field
          [u |-> "t1", m |-> "POST", cid |-> 1, date |-> 1,
           post |-> [status |-> [x \in {"s1"} |-> "excused"], remarks |-> EmptyTable]]}

NextAttendance ==
    \E r \in AttendanceRequests :
        attendance_mark(r.u, r.m, r.cid, r.date, r.post.status, r.post.remarks)

SpecAttendance == InitBase /\ [][NextAttendance]_vars

\* the key of an Attendance row
AttendanceKey(row) == <<row.student, row.course, row.date>>

C5_OneRowPerKey ==
    \A a, b \in DOMAIN attendance :
        AttendanceKey(attendance[a]) = AttendanceKey(attendance[b]) => a = b

\* what one completed attendance_mark POST does, in terms of the posted form
C5_MarkStep ==
    (resp'.handler = "attendance_mark" /\ resp'.to = "attendance_list")
    => LET rq == resp'.arg
           marked == {x \in courses[rq.course].students :
                         x \in DOMAIN rq.status /\ rq.status[x] # ""}
           before(x) == {k \in DOMAIN attendance :
                           AttendanceKey(attendance[k]) = <<x, rq.course, rq.date>>}
           after(x) == {k \in DOMAIN attendance' :
                           AttendanceKey(attendance'[k]) = <<x, rq.course, rq.date>>}
       IN /\ \A x \in marked :
                /\ Cardinality(after(x)) = 1
                /\ \A k \in after(x) :
                     /\ attendance'[k].status = rq.status[x]
                     /\ attendance'[k].remarks =
                           (IF x \in DOMAIN rq.remarks THEN rq.remarks[x] ELSE "")
                     /\ attendance'[k].marked_by = resp'.user
          /\ resp'.updated = Cardinality({x \in marked : before(x) # {}})
          /\ resp'.created = Cardinality({x \in marked : before(x) = {}})
          /\ (resp'.msg = "Attendance updated! records were updated, new records created.")
                <=> (resp'.updated > 0)
          /\ \A k \in DOMAIN attendance :
                attendance[k].student \notin marked
                \/ attendance[k].course # rq.course
                \/ attendance[k].date # rq.date
                => (k \in DOMAIN attendance' /\ attendance'[k] = attendance[k])

\* C5: marking the same (student, course, date) again leaves exactly one row
\* for the key, holding the status, remarks and marked_by of the later call;
\* updated_count is the number of marked students whose row already existed,
\* created_count the number whose row did not, and the 'updated' message is
\* used iff updated_count > 0.
C5_AttendanceUpsert == []C5_OneRowPerKey /\ [][C5_MarkStep]_vars

\* a call that updated one existing record and created another, made by a
\* user other than the one who marked first
C5_Witness ==
    /\ resp.handler = "attendance_mark"
    /\ resp.updated = 1
    /\ resp.created = 1
    /\ \E k \in DOMAIN attendance :
          attendance[k].marked_by = "admin" /\ attendance[k].student = "s1"

----------------------------------------------------------------------------
(* Specification of two attendance_mark requests in flight at once *)

\* the first request is t1's, the second the admin's; both are for course 1
RaceFirst ==
    {MarkingProcess("t1", 1, d, po.status, po.remarks) :
        d \in Dates, po \in AttendancePosts \ {NoPost}}
RaceSecond ==
    {MarkingProcess("admin", 1, d, po.status, po.remarks) :
        d \in Dates,
        po \in {OnePost,
                [status |-> [x \in {"s1", "s2"} |-> "absent"],
                 remarks |-> [x \in {"s2"} |-> "flu"]]}}

\* attendance that was marked before the two requests arrived
RaceMarkedBefore ==
    {EmptyTable,
     [k \in {1} |-> attendance_defaults("s1", 1, 1, "late", "", "t2")]}

InitRace ==
    /\ InitBase!1 /\ InitBase!2 /\ InitBase!3 /\ InitBase!4 /\ InitBase!5
    /\ submissions = EmptyTable
    /\ attendance \in RaceMarkedBefore
    /\ announcements = EmptyTable
    /\ feedbacks = EmptyTable
    /\ reports = EmptyTable
    /\ now = 1
    /\ resp = NoResponse
    /\ \E a \in RaceFirst, b \in RaceSecond :
          procs = [p \in {1, 2} |-> IF p = 1 THEN a ELSE b]

NextRace ==
    \E p \in DOMAIN procs :
        \/ am_get(p)
        \/ am_create(p)
        \/ am_reget(p)
        \/ am_save(p)
        \/ am_respond(p)

SpecRace == InitRace /\ [][NextRace]_vars

\* the keys both requests mark
RaceSharedKeys ==
    {<<x, procs[1].course, procs[1].date>> :
        x \in {y \in DOMAIN procs[1].status \cap DOMAIN procs[2].status :
                  /\ procs[1].status[y] # "" /\ procs[2].status[y] # ""
                  /\ procs[1].course = procs[2].course
                  /\ procs[1].date = procs[2].date}}

\* the row a request writes for a student
RaceWrites(p, x) ==
    [status |-> procs[p].status[x],
     remarks |-> IF x \in DOMAIN procs[p].remarks THEN procs[p].remarks[x] ELSE "",
     marked_by |-> procs[p].user]

\* C6: however two attendance_mark requests for the same (student, course,
\* date) interleave, neither fails on the unique constraint, there is never
\* more than one row for a key, and when both are done the row of a key they
\* share exists once and holds the status, remarks and marked_by of one of them.
C6_RaceKeepsOneRow ==
    /\ \A p \in DOMAIN procs : procs[p].pc # "failed"
    /\ C5_OneRowPerKey
    /\ (\A p \in DOMAIN procs : procs[p].pc = "done")
       => \A key \in RaceSharedKeys :
            /\ Cardinality({k \in DOMAIN attendance :
                               AttendanceKey(attendance[k]) = key}) = 1
            /\ \A k \in DOMAIN attendance :
                 AttendanceKey(attendance[k]) = key
                 => \E p \in DOMAIN procs :
                      /\ attendance[k].status = RaceWrites(p, key[1]).status
                      /\ attendance[k].remarks = RaceWrites(p, key[1]).remarks
                      /\ attendance[k].marked_by = RaceWrites(p, key[1]).marked_by

\* both requests are done, they marked the same key, and one of them lost the
\* insert: its create raised IntegrityError and it went on to update the row
C6_Witness ==
    /\ \A p \in DOMAIN procs : procs[p].pc = "done"
    /\ RaceSharedKeys # {}
    /\ \E p \in DOMAIN procs :
          /\ procs[p].integrity_errors = 1
          /\ procs[p].updated >= 1
          /\ procs[3 - p].created >= 1

----------------------------------------------------------------------------
(* Specification of access control: every handler that can deny, called by  *)
(* users of every role, by the owner and by another teacher, and by the     *)
(* account without Profile                                                  *)

InitAccess ==
    /\ users = InitUsers
    /\ profiles = InitProfiles
    /\ courses = InitCourses
    /\ lessons = InitLessons
    /\ assignments = InitAssignments
    /\ submissions = [s \in {1} |-> NewSubmission(1, "s2", "hw.pdf")]
    /\ attendance = EmptyTable
    /\ announcements = [a \in {1} |-> [title |-> "Exam", target_roles |-> Text["all"],
                                       is_active |-> TRUE, created_by |-> "t1"]]
    /\ feedbacks = [f \in {1} |-> [submitted_by |-> "s1", status |-> "pending",
                                   response |-> NULL, responded_by |-> NULL,
                                   responded_at |-> None]]
    /\ reports = EmptyTable
    /\ now = 1
    /\ resp = NoResponse
    /\ procs = EmptyTable


\* the form data of the POST requests; a GET carries none
NewCourseForm == [title |-> "Physics", teacher |-> "t2", course_code |-> "PH1"]
EditCourseForm == [title |-> "Algebra II", teacher |-> "t1", course_code |-> "CS101"]
NewLessonForm == [course |-> 1, title |-> "Fractions"]
NewAssignmentForm == [course |-> 1, title |-> "HW2"]
NewUserForm == [username |-> "s3", email |-> Email("s3"), role |-> "student"]
EditProfileForm == [role |-> "admin", linked_student |-> NULL]
NewReportForm == [institute_name |-> "Institute", accessibility_status |-> "partial"]
RespondForm == [response |-> "noted", status |-> "addressed"]
AnnouncementPost == [title |-> "Holiday", target_all |-> "",
                     target_roles |-> <<Text["student"], Text["parent"]>>,
                     is_active |-> "on"]

\* the users the access matrix lets through the staff-only handlers
Staff == {"admin", "t1", "t2"}
\* a request of this specification to a handler that lets the users of
\* allowed through: they open the page (GET), everybody else sends the form
Tries(u, m, allowed) == m = IF u \in allowed THEN "GET" ELSE "POST"
\* a request to a handler whose writes are part of this specification: the
\* users of allowed use both methods, everybody else sends the form
Sends(u, m, allowed) == u \notin allowed => m = "POST"

NextAccess ==
    \/ \E u \in Actors : dashboard_admin(u)
    \/ \E u \in Actors : dashboard_teacher(u)
    \/ \E u \in Actors : dashboard_student(u)
    \/ \E u \in Actors : dashboard_parent(u)
    \/ \E u \in Actors : user_list(u)
    \/ \E u \in Actors, m \in Methods :
            Tries(u, m, {"admin"}) /\ user_create(u, m, NewUserForm)
    \/ \E u \in Actors, m \in Methods :
            Tries(u, m, {"admin"}) /\ user_edit(u, m, "par", EditProfileForm)
    \/ \E u \in Actors, m \in Methods :
            Tries(u, m, {"admin"}) /\ user_delete(u, m, "par")
    \/ \E u \in Actors, m \in Methods :
            Sends(u, m, Staff) /\ course_create(u, m, NewCourseForm)
    \/ \E u \in Actors, m \in Methods :
            Tries(u, m, Staff) /\ course_enroll(u, m, 1, {"s1"})
    \/ \E u \in Actors, m \in Methods, c \in CourseIds :
            Sends(u, m, Staff) /\ course_edit(u, m, c, EditCourseForm)
    \/ \E u \in Actors, m \in Methods, c \in CourseIds :
            Sends(u, m, Staff) /\ course_delete(u, m, c)
    \/ \E u \in Actors, m \in Methods :
            Tries(u, m, Staff) /\ lesson_create(u, m, 1, NewLessonForm)
    \/ \E u \in Actors, m \in Methods :
            Tries(u, m, {"admin", "t1"}) /\ lesson_edit(u, m, 1, NewLessonForm)
    \/ \E u \in Actors, m \in Methods :
            Tries(u, m, {"admin", "t1"}) /\ lesson_delete(u, m, 1)
    \/ \E u \in Actors, m \in Methods :
            Tries(u, m, Staff) /\ assignment_create(u, m, 1, NewAssignmentForm)
    \/ \E u \in Actors, m \in Methods :
            Tries(u, m, {"s1", "nop"}) /\ submission_create(u, m, 1, "hw.pdf")
    \/ \E u \in Actors, m \in Methods :
            Tries(u, m, Staff) /\ submission_grade(u, m, 1, "85", "good", "graded")
    \/ \E u \in Actors : compliance_list(u)
    \/ \E u \in Actors, m \in Methods :
            Tries(u, m, {"admin"}) /\ compliance_create(u, m, NewReportForm)
    \/ \E u \in Actors, m \in Methods :
            Tries(u, m, Staff) /\ feedback_respond(u, m, 1, RespondForm)
    \/ \E u \in Actors : attendance_list(u)
    \/ \E u \in Actors, m \in Methods :
            Tries(u, m, Staff)
            /\ attendance_mark(u, m, 1, 1, OnePost.status, OnePost.remarks)
    \/ \E u \in Actors, m \in Methods :
            Tries(u, m, Staff) /\ announcement_create(u, m, AnnouncementPost)
    \/ \E u \in Actors, m \in Methods :
            Tries(u, m, {"admin", "t1"}) /\ announcement_edit(u, m, 1, AnnouncementPost)
    \/ \E u \in Actors, m \in Methods :
            Sends(u, m, {"admin", "t1"}) /\ announcement_delete(u, m, 1)
    \/ \E u \in Actors, c \in CourseIds : course_students_api(u, c)

SpecAccess == InitAccess /\ [][NextAccess]_vars

----------------------------------------------------------------------------
(* Claims about access control *)

\* the response of a failed role check
RoleDenied(r) ==
    /\ r.kind = "redirect"
    /\ r.to = "dashboard"
    /\ r.msg \in {"Access denied.", "Access denied. Admin only.",
                  "Access denied. Teachers only.", "Access denied. Students only.",
                  "Access denied. Parents only."}

\* the response of a failed ownership check
OwnershipDenied(r) ==
    \/ /\ r.kind = "redirect"
       /\ r.msg \in {"You can only edit your own courses.",
                     "You can only delete your own courses.",
                     "You can only edit lessons from your own courses.",
                     "You can only delete lessons from your own courses."}
    \/ /\ r.kind = "redirect"
       /\ r.handler \in {"announcement_edit", "announcement_delete"}
       /\ r.msg = "Access denied."
    \/ r.kind = "json" /\ r.to = "403"

Denied(r) == RoleDenied(r) \/ OwnershipDenied(r)

\* the access matrix: the roles allowed past the role check of each handler
AccessMatrix ==
    [h \in {"user_list", "user_create", "user_edit", "user_delete",
            "compliance_list", "compliance_create",
            "course_create", "course_edit", "course_delete",
            "lesson_create", "lesson_edit", "lesson_delete",
            "assignment_create", "attendance_list", "attendance_mark",
            "announcement_create", "submission_create"} |->
        IF h \in {"user_list", "user_create", "user_edit", "user_delete",
                  "compliance_list", "compliance_create"} THEN {"admin"}
        ELSE IF h = "submission_create" THEN {"student"}
        ELSE {"admin", "teacher"}]

\* C1: for every role and every guarded handler of the access matrix, a
\* request of a user with that role is turned away by the role check exactly
\* when the role is not in the handler's allowed set (admin only for user and
\* compliance handlers, admin or teacher for course, lesson, assignment,
\* attendance and announcement_create, student only for submission_create)
C1_RoleMatrix ==
    [][(resp'.handler \in DOMAIN AccessMatrix /\ resp'.user \in DOMAIN profiles)
        => (RoleDenied(resp')
              <=> profiles[resp'.user].role \notin AccessMatrix[resp'.handler])]_vars

\* a teacher has been turned away from submission_create
C1_Witness ==
    /\ resp.handler = "submission_create"
    /\ resp.user = "t1"
    /\ RoleDenied(resp)

\* C2 as stated: a request that ends in a denial (role mismatch or
\* non-ownership), dashboard_admin included, leaves every table unchanged
C2_DenialChangesNothing ==
    [][Denied(resp') => UNCHANGED db]_vars

\* C2 amended: a denied request leaves every table unchanged, except that
\* dashboard_admin called by a user without Profile first creates that user's
\* Profile (role student) and then denies; nothing else changes even then
C2_DenialChangesOnlyMissingProfile ==
    [][Denied(resp')
        => IF resp'.handler = "dashboard_admin" /\ resp'.user \notin DOMAIN profiles
           THEN /\ profiles' = Insert(profiles, resp'.user,
                                      [role |-> "student", linked_student |-> NULL])
                /\ UNCHANGED <<users, courses, lessons, assignments, submissions,
                               attendance, announcements, feedbacks, reports>>
           ELSE UNCHANGED db]_vars

\* the account without Profile has been denied by dashboard_admin and now has one
C2_Witness ==
    /\ resp.handler = "dashboard_admin"
    /\ resp.user = "nop"
    /\ Denied(resp)
    /\ "nop" \in DOMAIN profiles
    /\ "nop" \notin DOMAIN InitProfiles

----------------------------------------------------------------------------
(* Specification of ownership: two courses of two teachers with a lesson    *)
(* each; the teachers, the admin and a student edit and delete them         *)

InitOwnership ==
    /\ users = InitUsers
    /\ profiles = InitProfiles
    /\ courses = [c \in {1, 2} |->
                    IF c = 1 THEN InitCourses[1]
                    ELSE [title |-> "Physics", teacher |-> "t2",
                          students |-> {"s2"}, course_code |-> "PH1"]]
    /\ lessons = [l \in {1, 2} |-> [course |-> l, title |-> "Intro"]]
    /\ assignments = InitAssignments
    /\ submissions = EmptyTable
    /\ attendance = EmptyTable
    /\ announcements = EmptyTable
    /\ feedbacks = EmptyTable
    /\ reports = EmptyTable
    /\ now = 1
    /\ resp = NoResponse
    /\ procs = EmptyTable

OwnershipActors == {"admin", "t1", "t2", "s1"}
\* the posted course forms: a rename, a hand-over to the other teacher, a
\* course code that may collide, and a form without title
CourseForms ==
    [title : {"Algebra II"}, teacher : {"t1", "t2"}, course_code : {"CS101", "PH1"}]
    \cup {[title |-> "", teacher |-> "t1", course_code |-> "CS101"]}
LessonForms == [course : {1, 2}, title : {"Fractions"}] \cup {[course |-> 1, title |-> ""]}

NextOwnership ==
    \/ \E u \in OwnershipActors, c \in CourseIds \cup {3} :
            course_edit(u, "GET", c, EditCourseForm)
    \/ \E u \in OwnershipActors, c \in CourseIds, form \in CourseForms :
            course_edit(u, "POST", c, form)
    \/ \E u \in OwnershipActors, m \in Methods, c \in CourseIds : course_delete(u, m, c)
    \/ \E u \in OwnershipActors, l \in LessonIds \cup {3} :
            lesson_edit(u, "GET", l, NewLessonForm)
    \/ \E u \in OwnershipActors, l \in LessonIds, form \in LessonForms :
            lesson_edit(u, "POST", l, form)
    \/ \E u \in OwnershipActors, m \in Methods, l \in LessonIds : lesson_delete(u, m, l)

SpecOwnership == InitOwnership /\ [][NextOwnership]_vars

\* the teacher of the course a request of the four handlers is about
\* (its course, or the course of its lesson), in the state before the request
TargetExists(r) ==
    IF r.handler \in {"course_edit", "course_delete"}
    THEN r.arg \in DOMAIN courses
    ELSE r.arg \in DOMAIN lessons
TargetTeacher(r) ==
    IF r.handler \in {"course_edit", "course_delete"}
    THEN courses[r.arg].teacher
    ELSE courses[lessons[r.arg].course].teacher

\* C3: course_edit, course_delete, lesson_edit or lesson_delete called by a
\* teacher on a course (or a lesson of a course) of another teacher is denied
\* with a redirect and a message and changes nothing, so the course or lesson
\* still exists with all fields unchanged; called by an admin or by the
\* teacher of the course it is let through
C3_TeacherOwnership ==
    [][(/\ resp'.handler \in {"course_edit", "course_delete",
                              "lesson_edit", "lesson_delete"}
        /\ resp'.user \in DOMAIN profiles
        /\ TargetExists(resp'))
        => LET role == profiles[resp'.user].role IN
           /\ (role = "teacher" /\ TargetTeacher(resp') # resp'.user)
                 => /\ resp'.kind = "redirect"
                    /\ resp'.to \in {"course_list", "course_detail"}
                    /\ resp'.msg \in {"You can only edit your own courses.",
                                      "You can only delete your own courses.",
                                      "You can only edit lessons from your own courses.",
                                      "You can only delete lessons from your own courses."}
                    /\ UNCHANGED db
           /\ (role = "admin" \/ (role = "teacher" /\ TargetTeacher(resp') = resp'.user))
                 => /\ ~Denied(resp')
                    /\ resp'.kind \in {"render", "redirect"}
                    /\ resp'.kind = "redirect"
                          => resp'.msg \in {"Course updated successfully!",
                                            "Course deleted successfully!",
                                            "Lesson updated successfully!",
                                            "Lesson deleted successfully!"}]_vars

\* t2 has been denied the deletion of a lesson of t1's course, which is still
\* there, after t1 has deleted the other lesson, which it owned by then
C3_Witness ==
    /\ resp.handler = "lesson_delete"
    /\ resp.user = "t2"
    /\ resp.msg = "You can only delete lessons from your own courses."
    /\ resp.arg \in DOMAIN lessons
    /\ courses[lessons[resp.arg].course].teacher = "t1"
    /\ Cardinality(DOMAIN lessons) = 1

----------------------------------------------------------------------------
(* Specification of announcements: staff create, edit and delete them with  *)
(* every kind of audience, and users of every role open the pages that list *)
(* them                                                                     *)

\* the posted forms: the audiences everybody, two roles, and role tags as free
\* text; an inactive announcement; a POST without title
AnnouncementPosts ==
    {[title |-> "Exam", target_all |-> x.all, target_roles |-> x.roles,
      is_active |-> "on"] :
        x \in {[all |-> "on", roles |-> <<>>],
               [all |-> "", roles |-> <<Text["teacher"], Text["student"]>>],
               [all |-> "", roles |-> <<Text["students"]>>],
               [all |-> "", roles |-> <<Text["Parent"]>>]}}
    \cup {[title |-> "Exam", target_all |-> "on", target_roles |-> <<>>,
           is_active |-> ""],
          [title |-> NULL, target_all |-> "", target_roles |-> <<>>,
           is_active |-> "on"]}

\* a GET carries no form data
EmptyPost == [title |-> NULL, target_all |-> "", target_roles |-> <<>>,
              is_active |-> ""]

NextAnnouncement ==
    \/ \E u \in {"admin", "t1"}, post \in AnnouncementPosts :
            announcement_create(u, "POST", post)
    \/ \E u \in Actors : announcement_create(u, "GET", EmptyPost)
    \/ \E u \in Actors, a \in AnnouncementIds :
            announcement_edit(u, "GET", a, EmptyPost)
    \/ \E u \in Actors, a \in AnnouncementIds :
            \* the edit that withdraws an announcement
            announcement_edit(u, "POST", a,
                [title |-> "Exam", target_all |-> "",
                 target_roles |-> <<Text["teacher"], Text["student"]>>,
                 is_active |-> ""])
    \/ \E u \in Actors, m \in Methods, a \in AnnouncementIds :
            announcement_delete(u, m, a)
    \/ \E u \in Actors : announcement_list(u)
    \/ \E u \in Actors : dashboard_student(u)

SpecAnnouncement == InitBase /\ [][NextAnnouncement]_vars

----------------------------------------------------------------------------
(* Claims about announcements *)

\* the role tag r is one of the comma-separated entries of the text
InTargetList(r, text) ==
    \E i, j \in 1..Len(text) :
        /\ SubSeq(text, i, j) = Text[r]
        /\ i = 1 \/ text[i - 1] = ","
        /\ j = Len(text) \/ text[j + 1] = ","

\* the name of role r occurs somewhere in the text, in any letter case
OccursIn(r, text) ==
    \E i, j \in 1..Len(text) :
        [k \in 1..(j - i + 1) |-> lower(text[i + k - 1])] = Text[r]

\* an announcement_list page has been rendered for a user with a Profile
ListRendered ==
    /\ resp'.handler = "announcement_list"
    /\ resp'.kind = "render"

\* C11 as stated: announcement_list shows a non-admin viewer with role r an
\* announcement iff its target_roles is "all" or r is in its target list, and
\* shows an admin every announcement
C11_ShownIffTargeted ==
    [][ListRendered
        => LET r == profiles[resp'.user].role IN
           resp'.context.announcements =
              IF r = "admin" THEN DOMAIN announcements
              ELSE {a \in DOMAIN announcements :
                        \/ announcements[a].target_roles = Text["all"]
                        \/ InTargetList(r, announcements[a].target_roles)}]_vars

\* C11 amended: announcement_list shows a non-admin viewer with role r an
\* announcement iff the announcement is active and its target_roles is "all"
\* or contains the name of r as a substring in any letter case; it shows an
\* admin every announcement, active or not
C11_ShownIffActiveAndMatched ==
    [][ListRendered
        => LET r == profiles[resp'.user].role IN
           resp'.context.announcements =
              IF r = "admin" THEN DOMAIN announcements
              ELSE {a \in DOMAIN announcements :
                        /\ announcements[a].is_active
                        /\ \/ announcements[a].target_roles = Text["all"]
                           \/ OccursIn(r, announcements[a].target_roles)}]_vars

\* a parent has opened the list while an active announcement for teachers and
\* students and a withdrawn one existed, and saw neither; of the two
\* announcements one is not shown to the parent only because it is inactive
C11_Witness ==
    /\ resp.handler = "announcement_list"
    /\ resp.kind = "render"
    /\ resp.user = "par"
    /\ resp.context.announcements = {}
    /\ \E a, b \in DOMAIN announcements :
          /\ announcements[a].is_active
          /\ announcements[a].target_roles =
                Text["teacher"] \o <<",">> \o Text["student"]
          /\ ~announcements[b].is_active
          /\ announcements[b].target_roles = Text["all"]

\* C12: no page shows a non-admin user an announcement whose target_roles is
\* neither "all" nor includes that user's role (read generously: the name of
\* the role occurs in target_roles); this covers every view that lists
\* announcements, the student dashboard included
C12_NoPageShowsUntargeted ==
    [][(/\ resp'.handler \in {"announcement_list", "dashboard_student"}
        /\ resp'.kind = "render"
        /\ profiles[resp'.user].role # "admin")
        => \A a \in resp'.context.announcements :
              \/ announcements[a].target_roles = Text["all"]
              \/ OccursIn(profiles[resp'.user].role,
                          announcements[a].target_roles)]_vars

\* the variables without the body of the last response: every request flips
\* resp.seq, so a step changes this tuple exactly when it changes vars
served == <<db, now, procs, resp.seq>>

\* C13: announcement_edit and announcement_delete change or remove an
\* announcement only if the acting user has role admin or is its created_by;
\* for every other user the request is denied with a redirect to the
\* announcement list and the announcement is unchanged
C13_AdminOrCreatorOnly ==
    [][(/\ resp'.handler \in {"announcement_edit", "announcement_delete"}
        /\ resp'.arg \in DOMAIN announcements)
        => LET a == resp'.arg
               u == resp'.user
               allowed == \/ u \in DOMAIN profiles /\ profiles[u].role = "admin"
                          \/ announcements[a].created_by = u
           IN /\ announcements' # announcements => allowed
              /\ ~allowed => /\ resp'.kind = "redirect"
                             /\ resp'.to = "announcement_list"
                             /\ resp'.msg = "Access denied."
                             /\ UNCHANGED db]_served

----------------------------------------------------------------------------
(* Specification of accounts: visitors register (one registration is in     *)
(* flight, statement by statement), users open the landing page and their   *)
(* settings, the admin edits users.  Besides the legacy account there is a  *)
(* superuser made by createsuperuser, which has no Profile either.          *)

RegisterForms ==
    {[username |-> "s3", email |-> Email("s3"), role |-> "teacher"],
     [username |-> "s3", email |-> Email("t1"), role |-> "parent"],
     [username |-> "t1", email |-> Email("s3"), role |-> "student"],
     [username |-> "s3", email |-> <<"s3", "school">>, role |-> "teacher"],
     [username |-> "s3", email |-> Email("s3"), role |-> "admin"]}

InitAccounts ==
    /\ users = Insert(InitUsers, "root", [is_superuser |-> TRUE, email |-> Email("root")])
    /\ profiles = InitProfiles
    /\ courses = InitCourses
    /\ lessons = InitLessons
    /\ assignments = InitAssignments
    /\ submissions = EmptyTable
    /\ attendance = EmptyTable
    /\ announcements = EmptyTable
    /\ feedbacks = EmptyTable
    /\ reports = EmptyTable
    /\ now = 1
    /\ resp = NoResponse
    /\ \E form \in {f \in RegisterForms : f.role \in {"teacher", "student"}} :
          procs = [p \in {1} |-> [form |-> form, pc |-> "user_save"]]

NextAccounts ==
    \/ \E p \in DOMAIN procs : rg_user_save(p)
    \/ \E p \in DOMAIN procs : rg_get_or_create(p)
    \/ \E p \in DOMAIN procs : rg_profile_save(p)
    \/ \E form \in RegisterForms : register_view("POST", form)
    \/ \E form \in RegisterForms : form.role = "parent" /\ register_view("GET", form)
    \/ \E u \in {"admin", "t1", "par", "nop", "root", "s3"} : dashboard_view(u)
    \/ \E u \in {"par", "nop", "s3"}, role \in {"admin", "student"}, linked \in {NULL, "s1"} :
          \E method \in IF linked = NULL THEN Methods ELSE {"POST"} :
             profile_settings(u, method, [role |-> role, linked_student |-> linked])
    \/ \E user_id \in {"par", "s3"}, role \in {"admin", "teacher"} :
          \E method \in IF role = "admin" THEN Methods ELSE {"POST"} :
             user_edit("admin", method, user_id, [role |-> role, linked_student |-> NULL])
    \/ \E u \in {"nop", "s3"} : dashboard_student(u)

SpecAccounts == InitAccounts /\ [][NextAccounts]_vars

----------------------------------------------------------------------------
(* Claims about accounts *)

\* C14: registration creates the User and its Profile as one unit: no request
\* of the new user is served while the User is there and its Profile with
\* the chosen role is not, so none of them fails for want of a Profile
C14_NoRequestSeesUserWithoutProfile ==
    \A p \in DOMAIN procs :
        (/\ procs[p].pc \in {"get_or_create", "profile_save"}
         /\ resp.user = procs[p].form.username)
        => /\ resp.kind # "error500"
           /\ HasProfile(resp.user) /\ Role(resp.user) = procs[p].form.role

\* C15: registration rejects a username or an e-mail address that is already
\* taken, so no two users ever share a username (the key of users) or an
\* e-mail address
C15_UniqueUsernameAndEmail ==
    \A a, b \in DOMAIN users : a # b => users[a].email # users[b].email

\* C16: the landing page gives a user without Profile one (role admin for a
\* superuser, student for anyone else) and creates nothing for a user who
\* has a Profile; either way it redirects to the dashboard of the user's role
C16_DashboardSelfHeals ==
    [][(resp'.seq # resp.seq /\ resp'.handler = "dashboard")
       => LET u == resp'.user
              page == [admin |-> "dashboard_admin", teacher |-> "dashboard_teacher",
                       student |-> "dashboard_student", parent |-> "dashboard_parent"]
          IN /\ IF u \in DOMAIN profiles
                THEN profiles' = profiles
                ELSE /\ DOMAIN profiles' = DOMAIN profiles \cup {u}
                     /\ \A x \in DOMAIN profiles : profiles'[x] = profiles[x]
                     /\ profiles'[u].role = IF users[u].is_superuser
                                            THEN "admin" ELSE "student"
             /\ UNCHANGED <<users, courses, lessons, assignments, submissions,
                            attendance, announcements, feedbacks, reports>>
             /\ resp'.kind = "redirect"
             /\ resp'.to = page[profiles'[u].role]]_served

\* both accounts without Profile have opened the landing page: the superuser
\* is an admin now, the legacy account a student
C16_Witness ==
    /\ resp.handler = "dashboard" /\ resp.user = "root"
    /\ resp.msg = "Profile created. Please update your settings."
    /\ resp.to = "dashboard_admin"
    /\ "root" \in DOMAIN profiles /\ profiles["root"].role = "admin"
    /\ "nop" \in DOMAIN profiles /\ profiles["nop"].role = "student"

\* C17: whatever role a request carries, neither the settings page nor the
\* admin's user_edit changes the role of any profile
C17_RoleImmutable ==
    [][(resp'.seq # resp.seq /\ resp'.handler \in {"profile_settings", "user_edit"})
       => \A u \in DOMAIN profiles :
             /\ u \in DOMAIN profiles'
             /\ profiles'[u].role = profiles[u].role]_served

\* the parent has posted the settings form (every such POST of the
\* specification carries role admin or student): the form was saved, the
\* link to the student is gone, and the role is still parent
C17_Witness ==
    /\ resp.handler = "profile_settings" /\ resp.user = "par"
    /\ resp.msg = "Profile updated successfully!"
    /\ profiles["par"].linked_student = NULL
    /\ profiles["par"].role = "parent"

\* C18: no request of a logged-in user, the accounts without Profile
\* included, ends in an unhandled exception
C18_NoUnhandledException ==
    resp.user \in DOMAIN users => resp.kind # "error500"

----------------------------------------------------------------------------
(* Specification of the attendance statistics: t1 marks one or both         *)
(* students of course 1 on the first and on the last day, t2 marks student  *)
(* s2 in either course, and the users open the teacher dashboard            *)

NextStatistics ==
    \/ \E date \in {1, MaxDate}, marked \in {{"s1"}, {"s1", "s2"}} :
          \E status \in [marked -> ATTENDANCE_STATUS_CHOICES] :
             attendance_mark("t1", "POST", 1, date, status, EmptyTable)
    \/ \E status \in {"present", "late"}, c \in CourseIds :
          attendance_mark("t2", "POST", c, 1, [x \in {"s2"} |-> status], EmptyTable)
    \/ \E u \in {"t1", "t2", "s1", "nop"} : dashboard_teacher(u)

SpecStatistics == InitOwnership /\ [][NextStatistics]_vars

----------------------------------------------------------------------------
(* Claims about the attendance statistics *)

\* the Attendance rows of the courses that u teaches
RowsTaught(u) ==
    {k \in DOMAIN attendance : courses[attendance[k].course].teacher = u}
PresentRows(u) == {k \in RowsTaught(u) : attendance[k].status = "present"}
\* the teacher dashboard is on the screen (no request has changed the tables
\* since it was rendered)
StatisticsShown == resp.handler = "dashboard_teacher" /\ resp.kind = "render"

\* C19: the attendance percentage of the teacher dashboard, in tenths of a
\* percent, is 0 when the teacher's courses have no attendance rows and
\* otherwise the tenth nearest to present / total * 100, where total counts
\* the rows of every status and present only those marked present; three
\* present and one absent give 75.0; it always lies between 0 and 100
C19_AttendancePercentage ==
    StatisticsShown
    => LET total == Cardinality(RowsTaught(resp.user))
           present == Cardinality(PresentRows(resp.user))
           shown == resp.context.attendance_percentage
       IN /\ shown \in 0..1000
          /\ total = 0 => shown = 0
          /\ total > 0 => /\ 2 * (shown * total - 1000 * present) <= total
                          /\ 2 * (1000 * present - shown * total) <= total
          /\ (present = 3 /\ total = 4) => shown = 750

\* t1 sees 75.0: three rows present and one absent
C19_Witness ==
    /\ StatisticsShown /\ resp.user = "t1"
    /\ Cardinality(PresentRows("t1")) = 3
    /\ \E k \in RowsTaught("t1") : attendance[k].status = "absent"
    /\ Cardinality(RowsTaught("t1")) = 4
    /\ resp.context.attendance_percentage = 750

----------------------------------------------------------------------------
(* Specification of feedback: one pending feedback of s1; staff and others  *)
(* answer it, with either status, while time passes                         *)

NextFeedback ==
    \/ \E u \in {"admin", "t1", "s1", "nop"}, feedback_id \in {1, 2},
          response \in {"", "noted"}, status \in {"", "pending", "addressed"} :
          feedback_respond(u, "POST", feedback_id,
                           [response |-> response, status |-> status])
    \/ \E u \in {"admin", "s1"} : feedback_respond(u, "GET", 1, RespondForm)
    \/ Tick

SpecFeedback == InitAccess /\ [][NextFeedback]_vars

\* C20: a feedback that carries the time of a response has status addressed
C20_RespondedIsAddressed ==
    \A f \in DOMAIN feedbacks :
        feedbacks[f].responded_at # None => feedbacks[f].status = "addressed"

----------------------------------------------------------------------------
(* Claims about missing ids and deletion *)

\* C21: a handler that takes an entity id answers a request for an id that
\* does not exist with the standard not-found response; stated here for the
\* JSON endpoint, which only reads, asked by the admin
C21_MissingIdIsNotFound ==
    (/\ resp.handler = "course_students_api"
     /\ resp.user = "admin"
     /\ resp.arg \notin DOMAIN courses)
    => resp.kind = "notfound"

----------------------------------------------------------------------------
(* Specification of deletion: two courses with lessons, assignments, graded *)
(* and ungraded submissions, attendance, announcements, an answered         *)
(* feedback and a report; the admin deletes users, and the admin and the    *)
(* teachers delete courses, lessons and announcements                       *)

InitDeletion ==
    /\ users = InitUsers
    /\ profiles = InitProfiles
    /\ courses = [c \in {1, 2} |->
                    IF c = 1 THEN InitCourses[1]
                    ELSE [title |-> "Physics", teacher |-> "t2",
                          students |-> {"s2"}, course_code |-> "PH1"]]
    /\ lessons = [l \in {1, 2} |-> [course |-> l, title |-> "Intro"]]
    /\ assignments = [a \in {1, 2} |->
                        [course |-> a, title |-> "HW", created_by |-> "t1"]]
    /\ submissions = [s \in {1, 2} |->
                        IF s = 1
                        THEN [NewSubmission(1, "s1", "hw.pdf") EXCEPT
                                 !.marks_obtained = Some(85), !.status = "graded",
                                 !.graded_by = "t2", !.graded_at = Some(1)]
                        ELSE NewSubmission(2, "s2", "hw.pdf")]
    /\ attendance = [k \in {1, 2} |->
                        IF k = 1 THEN attendance_defaults("s1", 1, 1, "present", "", "t1")
                        ELSE attendance_defaults("s2", 2, 1, "late", "", "admin")]
    /\ announcements = [a \in {1, 2} |->
                          [title |-> "Exam", target_roles |-> Text["all"],
                           is_active |-> TRUE,
                           created_by |-> IF a = 1 THEN "t1" ELSE "t2"]]
    /\ feedbacks = [f \in {1} |-> [submitted_by |-> "s2", status |-> "addressed",
                                   response |-> "noted", responded_by |-> "t2",
                                   responded_at |-> Some(1)]]
    /\ reports = [r \in {1} |-> [institute_name |-> "Institute",
                                 accessibility_status |-> "partial",
                                 reported_by |-> "admin"]]
    /\ now = 1
    /\ resp = NoResponse
    /\ procs = EmptyTable

NextDeletion ==
    \/ \E user_id \in {"t1", "t2", "s1"}, method \in Methods :
          user_delete("admin", method, user_id)
    \/ \E u \in {"admin", "t1", "t2"}, c \in CourseIds : course_delete(u, "POST", c)
    \/ \E u \in {"admin", "t2"}, l \in LessonIds : lesson_delete(u, "POST", l)
    \/ \E u \in {"admin", "t1"}, a \in AnnouncementIds : announcement_delete(u, "POST", a)

SpecDeletion == InitDeletion /\ [][NextDeletion]_vars

\* every reference of every row is to a row that exists (or is null where
\* the column allows it)
RefsIntact ==
    LET U == DOMAIN users
        Ref(x) == x = NULL \/ x \in U
    IN /\ \A k \in DOMAIN profiles : k \in U /\ Ref(profiles[k].linked_student)
       /\ \A k \in DOMAIN courses :
             courses[k].teacher \in U /\ courses[k].students \subseteq U
       /\ \A k \in DOMAIN lessons : lessons[k].course \in DOMAIN courses
       /\ \A k \in DOMAIN assignments :
             /\ assignments[k].course \in DOMAIN courses
             /\ assignments[k].created_by \in U
       /\ \A k \in DOMAIN submissions :
             /\ submissions[k].assignment \in DOMAIN assignments
             /\ submissions[k].student \in U
             /\ Ref(submissions[k].graded_by)
       /\ \A k \in DOMAIN attendance :
             /\ attendance[k].course \in DOMAIN courses
             /\ attendance[k].student \in U /\ attendance[k].marked_by \in U
       /\ \A k \in DOMAIN announcements : announcements[k].created_by \in U
       /\ \A k \in DOMAIN feedbacks :
             feedbacks[k].submitted_by \in U /\ Ref(feedbacks[k].responded_by)
       /\ \A k \in DOMAIN reports : reports[k].reported_by \in U

\* the request just answered has deleted row k through handler h
DeletedBy(h, k, msg) ==
    resp'.handler = h /\ resp'.arg = k /\ resp'.msg = msg

\* C22: after every request of the deletion handlers no row refers to a row
\* that is gone; a row stays, exactly as it was, unless it is the deleted row
\* or depends on a deleted row through a cascading reference; a row with an
\* audit-style reference to a deleted user stays with that reference null
C22_DeletionKeepsReferences ==
    [][LET gone == DOMAIN users \ DOMAIN users'
           nulled(x) == IF x \in gone THEN NULL ELSE x
       IN /\ RefsIntact'
          /\ gone \subseteq {x \in UserIds : DeletedBy("user_delete", x,
                                                      "User deleted successfully!")}
          /\ \A k \in DOMAIN profiles \ gone :
                /\ k \in DOMAIN profiles'
                /\ profiles'[k] = [profiles[k] EXCEPT !.linked_student = nulled(@)]
          /\ \A k \in DOMAIN courses :
                (/\ courses[k].teacher \notin gone
                 /\ ~DeletedBy("course_delete", k, "Course deleted successfully!"))
                => /\ k \in DOMAIN courses'
                   /\ courses'[k] = [courses[k] EXCEPT !.students = @ \ gone]
          /\ \A k \in DOMAIN lessons :
                (/\ lessons[k].course \in DOMAIN courses'
                 /\ ~DeletedBy("lesson_delete", k, "Lesson deleted successfully!"))
                => k \in DOMAIN lessons' /\ lessons'[k] = lessons[k]
          /\ \A k \in DOMAIN assignments :
                (/\ assignments[k].course \in DOMAIN courses'
                 /\ assignments[k].created_by \notin gone)
                => k \in DOMAIN assignments' /\ assignments'[k] = assignments[k]
          /\ \A k \in DOMAIN submissions :
                (/\ submissions[k].assignment \in DOMAIN assignments'
                 /\ submissions[k].student \notin gone)
                => /\ k \in DOMAIN submissions'
                   /\ submissions'[k] = [submissions[k] EXCEPT !.graded_by = nulled(@)]
          /\ \A k \in DOMAIN attendance :
                (/\ attendance[k].course \in DOMAIN courses'
                 /\ attendance[k].student \notin gone
                 /\ attendance[k].marked_by \notin gone)
                => k \in DOMAIN attendance' /\ attendance'[k] = attendance[k]
          /\ \A k \in DOMAIN announcements :
                (/\ announcements[k].created_by \notin gone
                 /\ ~DeletedBy("announcement_delete", k,
                               "Announcement deleted successfully!"))
                => k \in DOMAIN announcements' /\ announcements'[k] = announcements[k]
          /\ \A k \in DOMAIN feedbacks :
                feedbacks[k].submitted_by \notin gone
                => /\ k \in DOMAIN feedbacks'
                   /\ feedbacks'[k] = [feedbacks[k] EXCEPT !.responded_by = nulled(@)]
          /\ \A k \in DOMAIN reports :
                reports[k].reported_by \notin gone
                => k \in DOMAIN reports' /\ reports'[k] = reports[k]]_served

\* teacher t2 has been deleted: the course, its lesson, its assignment's
\* submission and its attendance are gone, while the submission t2 graded
\* and the feedback t2 answered are still there, without grader and responder
C22_Witness ==
    /\ resp.handler = "user_delete" /\ resp.arg = "t2"
    /\ "t2" \notin DOMAIN users
    /\ 2 \notin DOMAIN courses /\ 2 \notin DOMAIN lessons /\ 2 \notin DOMAIN attendance
    /\ 2 \notin DOMAIN assignments /\ 2 \notin DOMAIN submissions
    /\ 1 \in DOMAIN submissions /\ submissions[1].graded_by = NULL
    /\ submissions[1].status = "graded"
    /\ 1 \in DOMAIN feedbacks /\ feedbacks[1].responded_by = NULL
    /\ 1 \in DOMAIN lessons

----------------------------------------------------------------------------
(* Specification of submissions in flight: the students post their work for *)
(* assignment 1, a student twice at the same time                           *)

NextDuplicate ==
    \/ \E u \in {"s1", "s2", "t1"}, aid \in AssignmentIds, file \in {"hw.pdf", "v2.pdf", ""} :
          sc_check(u, aid, file)
    \/ \E p \in DOMAIN procs : sc_save(p)

SpecDuplicate == InitBase /\ [][NextDuplicate]_vars

\* C23: when two submission_create requests of one student for one
\* assignment are in flight together, the one that saves second is turned
\* away with a message; it does not end in an unhandled error
C23_DuplicateRejectedWithMessage ==
    resp.handler = "submission_create" => resp.kind # "error500"

\* C24: every Attendance row has one of the three statuses, whatever the
\* requests carried
C24_StatusIsAChoice ==
    \A k \in DOMAIN attendance : attendance[k].status \in ATTENDANCE_STATUS_CHOICES

\* C25: a page that shows a feedback to a user who did not submit it is
\* shown to an admin only; stated here for the feedback_respond page
C25_OnlyAdminSeesOthersFeedback ==
    (/\ resp.handler = "feedback_respond" /\ resp.kind = "render"
     /\ resp.context.feedback \in DOMAIN feedbacks
     /\ feedbacks[resp.context.feedback].submitted_by # resp.user)
    => resp.user \in DOMAIN profiles /\ profiles[resp.user].role = "admin"

\* C26: no request of a teacher creates or changes an attendance record of
\* a course that another user teaches
C26_TeacherLeavesOthersCourses ==
    [][(/\ resp'.seq # resp.seq
        /\ resp'.user \in DOMAIN profiles
        /\ profiles[resp'.user].role = "teacher")
       => \A k \in DOMAIN attendance' :
             courses[attendance'[k].course].teacher # resp'.user
             => k \in DOMAIN attendance /\ attendance'[k] = attendance[k]]_served

----------------------------------------------------------------------------
(* Specification of profile recovery: while a registration is in flight,    *)
(* the landing page, the admin dashboard and create_profiles recover the    *)
(* profiles of the superuser and of the new account, statement by           *)
(* statement, and the role admin is posted to register, to the settings     *)
(* page and to user_edit                                                    *)

NextHeal ==
    \/ \E p \in DOMAIN procs : rg_user_save(p)
    \/ \E p \in DOMAIN procs : rg_get_or_create(p)
    \/ \E p \in DOMAIN procs : rg_profile_save(p)
    \/ \E form \in RegisterForms :
          form.role \in {"admin", "parent"} /\ register_view("POST", form)
    \/ \E h \in {"dashboard", "dashboard_admin", "create_profiles"},
          u \in {"root", "s3"} : heal_get(h, u)
    \/ \E p \in DOMAIN procs : heal_create(p)
    \/ profile_settings("s3", "POST", [role |-> "admin", linked_student |-> NULL])
    \/ user_edit("admin", "POST", "s3", [role |-> "admin", linked_student |-> NULL])

SpecHeal == InitAccounts /\ [][NextHeal]_vars

\* C27: whatever register, the recovery paths of dashboard_view,
\* dashboard_admin and create_profiles, profile_settings and user_edit do,
\* in whatever order, every profile with role admin belongs to a superuser
C27_AdminRoleOnlyForSuperuser ==
    \A u \in DOMAIN profiles :
        profiles[u].role = "admin" => users[u].is_superuser

\* the superuser without profile was recovered as admin, the registration
\* went through with the role of its form, and a settings POST carrying
\* role admin was just saved for the new account
C27_Witness ==
    /\ {"root", "s3"} \subseteq DOMAIN profiles
    /\ profiles["root"].role = "admin"
    /\ profiles["s3"].role = "teacher"
    /\ resp.handler = "profile_settings" /\ resp.user = "s3"
    /\ resp.msg = "Profile updated successfully!"

\* a recovery step: the insert of a recovery in flight (which then leaves
\* the requests in flight), or a request to the
\* landing page or the admin dashboard answered in one step
RecoveryStep ==
    \/ \E p \in DOMAIN procs :
          /\ "handler" \in DOMAIN procs[p]
          /\ procs[p].pc = "create" /\ p \notin DOMAIN procs'
    \/ resp'.seq # resp.seq /\ resp'.handler \in {"dashboard", "dashboard_admin"}

\* C28: however the recoveries of dashboard_view, dashboard_admin and
\* create_profiles interleave with each other and with the statements of a
\* registration, a user has one Profile row at most (profiles is keyed by
\* user, and the insert refuses a second row), and no recovery step replaces
\* or removes a profile that exists
C28_ExistingProfileNotReplaced ==
    [][RecoveryStep
       => \A u \in DOMAIN profiles :
             /\ u \in DOMAIN profiles'
             /\ profiles'[u] = profiles[u]]_served

\* the landing page found no profile for the account being registered, the
\* registration then created the profile and set its role, and the insert
\* of the landing page was refused: the profile is the registration's
C28_Witness ==
    /\ resp.handler = "dashboard" /\ resp.user = "s3"
    /\ resp.kind = "error500" /\ resp.msg = "IntegrityError"
    /\ "s3" \in DOMAIN profiles /\ profiles["s3"].role = "teacher"

----------------------------------------------------------------------------
(* Specification of announcement targeting: a teacher creates a first       *)
(* announcement for any list of distinct role tags, with and without        *)
(* target_all, and a second one with no role ticked; the teacher edits      *)
(* them to no role or all four; users of the four roles open the list       *)

RoleTags == <<"admin", "teacher", "student", "parent">>

\* request.POST of the announcement form: getlist('target_roles') is a list
\* of distinct role tags, target_all is posted or not
TargetingPosts ==
    LET lists == {l \in UNION {[1..n -> DOMAIN RoleTags] : n \in 0..Len(RoleTags)} :
                     \A i, j \in DOMAIN l : i # j => l[i] # l[j]}
    IN {[title |-> "Exam", target_all |-> all,
         target_roles |-> [i \in DOMAIN l |-> Text[RoleTags[l[i]]]],
         is_active |-> "on"] : all \in {"", "on"}, l \in lists}

NextTargeting ==
    \/ \E post \in TargetingPosts :
            /\ announcements = EmptyTable \/ post.target_roles = <<>>
            /\ announcement_create("t1", "POST", post)
    \/ \E a \in AnnouncementIds, post \in TargetingPosts :
            /\ post.target_roles \in {<<>>, [i \in DOMAIN RoleTags |-> Text[RoleTags[i]]]}
            /\ announcement_edit("t1", "POST", a, post)
    \/ \E u \in {"admin", "t1", "s1", "par"} : announcement_list(u)

SpecTargeting == InitBase /\ [][NextTargeting]_vars

\* the step is a POST of this form to announcement_create or announcement_edit
StoresPost(post) ==
    \/ /\ resp'.handler = "announcement_create"
       /\ announcement_create(resp'.user, "POST", post)
    \/ /\ resp'.handler = "announcement_edit"
       /\ announcement_edit(resp'.user, "POST", resp'.arg, post)

\* the forms whose POST stores this value
PostsStoring(value) == {post \in TargetingPosts : target_roles_of(post) = value}

\* the rows a step has inserted or changed
Stored == {a \in DOMAIN announcements' :
              a \notin DOMAIN announcements \/ announcements'[a] # announcements[a]}

\* the role tags of a posted list
Submitted(post) ==
    {r \in {RoleTags[i] : i \in DOMAIN RoleTags} :
        \E i \in DOMAIN post.target_roles : post.target_roles[i] = Text[r]}

\* C30 as stated: for every target_roles value that announcement_create or
\* announcement_edit stores for a list of distinct role tags, the substring
\* test of announcement_list answers for each of the four roles what
\* membership of the role in the submitted list answers
C30_SubstringIsMembership ==
    [][resp'.handler \in {"announcement_create", "announcement_edit"} =>
          \A a \in Stored :
             \A post \in PostsStoring(announcements'[a].target_roles) :
                StoresPost(post) =>
                   \A r \in {"admin", "teacher", "student", "parent"} :
                      icontains(announcements'[a].target_roles, Text[r])
                         <=> r \in Submitted(post)]_served

\* C30 amended: when target_all is not posted, the substring test on the
\* stored value answers for each of the four roles what membership in the
\* submitted list answers (for the empty list the value is "all" and both
\* answer no); when target_all is posted the stored value is "all" whatever
\* roles are ticked, and the substring test answers no for every role
C30_SubstringIsMembershipWithoutTargetAll ==
    [][resp'.handler \in {"announcement_create", "announcement_edit"} =>
          \A a \in Stored :
             \A post \in PostsStoring(announcements'[a].target_roles) :
                StoresPost(post) =>
                   \A r \in {"admin", "teacher", "student", "parent"} :
                      IF post.target_all = ""
                      THEN icontains(announcements'[a].target_roles, Text[r])
                              <=> r \in Submitted(post)
                      ELSE /\ announcements'[a].target_roles = Text["all"]
                           /\ ~icontains(announcements'[a].target_roles,
                                         Text[r])]_served

\* a parent has opened the list and sees both announcements: one stored for
\* parent and admin without target_all, one stored as "all"
C30_Witness ==
    /\ resp.handler = "announcement_list" /\ resp.user = "par"
    /\ resp.kind = "render"
    /\ resp.context.announcements = {1, 2}
    /\ DOMAIN announcements = {1, 2}
    /\ announcements[1].target_roles = Text["parent"] \o <<",">> \o Text["admin"]
    /\ announcements[2].target_roles = Text["all"]

----------------------------------------------------------------------------
(* Specification of dashboard redirection: users of every role, and one     *)
(* without Profile, open each of the five dashboard URLs, and the browser   *)
(* follows the redirects; a request that is due is sent, and a redirect     *)
(* that has arrived is followed                                             *)

NextBrowse ==
    \/ \E u \in {"admin", "t1", "s1", "par", "nop"},
          url \in {"dashboard", "dashboard_admin", "dashboard_teacher",
                   "dashboard_student", "dashboard_parent"} : br_open(u, url)
    \/ \E p \in DOMAIN procs : br_request(p)
    \/ \E p \in DOMAIN procs : br_follow(p)

SpecBrowse ==
    /\ InitBase /\ [][NextBrowse]_vars
    /\ WF_vars(\E p \in DOMAIN procs : br_request(p))
    /\ WF_vars(\E p \in DOMAIN procs : br_follow(p))

\* the visit has come to its end: a page that is not a redirect was
\* answered, or the browser is at the admin panel
Landed(p) ==
    \/ procs[p].url = "/admin/"
    \/ procs[p].seq # resp.seq /\ resp.kind # "redirect"

\* the page at the end is the dashboard of the user's role (or the report of
\* a missing Profile)
LandedRight(p) ==
    \/ procs[p].url = "/admin/" /\ Role(procs[p].user) = "admin"
    \/ /\ procs[p].seq # resp.seq
       /\ \/ /\ resp.kind = "render" /\ HasProfile(procs[p].user)
             /\ resp.handler = CASE Role(procs[p].user) = "teacher" -> "dashboard_teacher"
                                 [] Role(procs[p].user) = "student" -> "dashboard_student"
                                 [] OTHER -> "dashboard_parent"
          \/ resp.kind = "error500" /\ procs[p].redirects = 0

\* C29 as stated: every visit that starts at dashboard_view or at one of the
\* four role dashboards follows two redirects at most and ends at the
\* dashboard page of the user's role, or at /admin/ for an admin
C29_AtMostTwoRedirects ==
    /\ [](\A p \in DOMAIN procs : procs[p].redirects <= 2)
    /\ \A p \in {1} : (p \in DOMAIN procs) ~> (p \in DOMAIN procs /\ Landed(p))

\* C29 amended: an admin who starts at the dashboard of another role follows
\* three redirects (to dashboard_view, to dashboard_admin, to /admin/);
\* every other visit follows two at most; every visit ends at the dashboard
\* page of the user's role, or at /admin/ for an admin
C29_AtMostThreeRedirects ==
    /\ [](\A p \in DOMAIN procs :
            /\ procs[p].redirects <=
                  IF /\ HasProfile(procs[p].user)
                     /\ Role(procs[p].user) = "admin"
                     /\ procs[p].start \in {"dashboard_teacher", "dashboard_student",
                                            "dashboard_parent"}
                  THEN 3 ELSE 2
            /\ Landed(p) => LandedRight(p))
    /\ \A p \in {1} : (p \in DOMAIN procs) ~> (p \in DOMAIN procs /\ Landed(p))

\* the admin opened the teacher dashboard and is at /admin/ after three
\* redirects
C29_Witness ==
    /\ 1 \in DOMAIN procs
    /\ procs[1].user = "admin" /\ procs[1].start = "dashboard_teacher"
    /\ procs[1].url = "/admin/" /\ procs[1].redirects = 3

============================================================================
